---- MODULE Spec2Model ----
(***************************************************************************)
(* Model of the website chatbot's write path:                              *)
(*   - WebsiteCrawler / JavaScriptWebsiteCrawler (bounded BFS crawl),      *)
(*   - VectorStore._chunk_text (sliding-window chunker),                   *)
(*   - VectorStore.index_pages / _get_embeddings / search (rebuild of the  *)
(*     collection and concurrent readers).                                 *)
(* Three specifications share the module: SpecCrawl, SpecChunk, SpecIndex. *)
(* Each one leaves the variables of the other two at their idle values.    *)
(***************************************************************************)
EXTENDS Integers, Sequences, FiniteSets, TLC

VARIABLES
    \* ---- crawler (crawler.py / js_crawler.py) ----
    kind,           \* "static" (WebsiteCrawler) or "js" (JavaScriptWebsiteCrawler)
    site,           \* the web site being crawled: path -> sequence of hrefs
    base_url,       \* self.base_url
    max_depth,      \* self.max_depth
    max_pages,      \* self.max_pages
    visited_urls,   \* self.visited_urls
    pages,          \* self.pages
    urls_to_crawl,  \* the local frontier list of crawl()
    crawl_pc,       \* "idle" | "loop" | "done" | "raised"
    fetch_log,      \* history: every fetch issued, as [url, depth, outcome]
    \* ---- chunker (VectorStore._chunk_text) ----
    text,           \* argument text
    chunk_size,     \* argument chunk_size
    overlap,        \* argument overlap
    start,          \* local start
    chunks,         \* local chunks (stripped, empty ones still present)
    windows,        \* history: <<start, end>> of every iteration
    ck_pc,          \* "idle" | "loop" | "done"
    \* ---- index rebuild and readers (VectorStore.index_pages / search) ----
    ip_cfg,         \* arguments of index_pages: [pages, chunk_size, overlap]
    coll,           \* the collection held by the vector index: Absent or a sequence of entries
    prev_coll,      \* history: the collection as it was when index_pages was called
    all_texts,      \* local all_texts
    all_metadatas,  \* local all_metadatas
    all_ids,        \* local all_ids
    embeddings,     \* local all_embeddings of _get_embeddings
    emb_i,          \* loop index i of the batch loop of _get_embeddings
    failed_batches, \* history: the indices i of the embedding batches that raised
    add_i,          \* loop index i of the add loop
    ip_pc,          \* "idle" | "start" | "deleted" | "created" | "embed" | "add" | "done" |
                    \* "create_failed" | "add_failed" | "hung"
    seen,           \* history: what the latest search observed and returned, and whether
                    \* index_pages had executed its first statement by then
    \* ---- chat workflow and its entry points (workflow.py, search_agent.py, api.py) ----
    request,        \* the call: [surface, query, chat_history, top_k]
    vector_store,   \* the global vector_store: None or not, its collection None or not
    search_request, \* SearchRequest handed to the workflow
    search_result,  \* SearchResult sent from the search agent to the answer agent
    output_data,    \* data of the WorkflowOutputEvent
    sources_sent,   \* local sources_sent of process_query_stream
    trace,          \* history: provider calls and emitted events, in order
    reply,          \* what the caller received
    chat_pc,        \* "idle" | "start" | "sse_start" | "call" | "search_agent" | "compose" |
                    \* "output" | "token" | "after_output" | "raised" | "done"
    \* ---- a pure function called on its own ----
    call,           \* the function and its arguments
    ret,            \* its return value, once it has returned
    \* ---- index pipeline (main.py index_website, api.py index_website) ----
    pl_cfg,         \* [surface, credentials]
    pl_report,      \* history: the error reported, and the fetches issued before it
    pl_pc,          \* "idle" | "start" | "crawl" | "index" | "done" | "failed"
    \* ---- interactive chat loop (WebsiteChatbotWorkflow.chat) ----
    history,        \* the local chat_history
    asked,          \* history: for every query processed, the chat_history passed and the outcome
    turn,           \* number of inputs read so far
    loop_pc         \* "idle" | "input" | "done"

crawlVars == <<kind, site, base_url, max_depth, max_pages, visited_urls, pages,
               urls_to_crawl, crawl_pc, fetch_log>>
chunkVars == <<text, chunk_size, overlap, start, chunks, windows, ck_pc>>
indexVars == <<ip_cfg, coll, prev_coll, all_texts, all_metadatas, all_ids,
               embeddings, emb_i, failed_batches, add_i, ip_pc, seen>>
chatVars  == <<request, vector_store, search_request, search_result, output_data,
               sources_sent, trace, reply, chat_pc>>
callVars  == <<call, ret>>
pipeVars  == <<pl_cfg, pl_report, pl_pc>>
loopVars  == <<history, asked, turn, loop_pc>>
vars == <<crawlVars, chunkVars, indexVars, chatVars, callVars, pipeVars, loopVars>>

(***************************************************************************)
(* Bounds of the model.                                                    *)
(***************************************************************************)
MaxDepthBound == 2      \* max_depth ranges over 0..MaxDepthBound
MaxPagesBound == 4      \* max_pages ranges over 1..MaxPagesBound

Max(a, b) == IF a >= b THEN a ELSE b
Min(a, b) == IF a <= b THEN a ELSE b

(***************************************************************************)
(* URLs.  A URL string is modelled by its five urlparse components.        *)
(***************************************************************************)
Url(s, h, p, q, f) == [scheme |-> s, host |-> h, path |-> p, query |-> q, frag |-> f]

\* str.split('#')[0] : everything before the first '#'
StripFragment(u) == [u EXCEPT !.frag = ""]

\* urllib.parse.urljoin(base, href) for the href shapes of the model:
\* absolute URLs, scheme-relative, absolute-path and fragment-only references.
UrlJoin(base, href) ==
    IF href.scheme # "" THEN href
    ELSE IF href.host # "" THEN [href EXCEPT !.scheme = base.scheme]
    ELSE IF href.path # "" THEN
        [href EXCEPT !.scheme = base.scheme, !.host = base.host]
    ELSE IF href.query # "" THEN
        [href EXCEPT !.scheme = base.scheme, !.host = base.host, !.path = base.path]
    ELSE IF href.frag # "" THEN
        [base EXCEPT !.frag = href.frag]
    ELSE base

\* The lower-cased file extension a component string ends with ("" if none).
Suffix(s) ==
    CASE s = "/doc.pdf"   -> ".pdf"
      [] s = "/IMG.PNG"   -> ".png"
      [] s = "/clip.mp4"  -> ".mp4"
      [] s = "file=a.pdf" -> ".pdf"
      [] s = "a.zip"      -> ".zip"
      [] OTHER            -> ""

\* The component the URL string ends with: url.lower().endswith(ext) looks
\* at the end of the whole string, i.e. at the fragment if there is one,
\* else at the query if there is one, else at the path.
LastComponent(u) ==
    IF u.frag # "" THEN u.frag
    ELSE IF u.query # "" THEN u.query
    ELSE u.path

StaticSkipExtensions == {".pdf", ".jpg", ".jpeg", ".png", ".gif", ".zip", ".exe"}
JsSkipExtensions == StaticSkipExtensions \cup {".mp4", ".mp3"}

\* urlparse(base_url).netloc
Domain(u) == u.host

\* url.startswith('#')
StartsWithHash(u) ==
    u.scheme = "" /\ u.host = "" /\ u.path = "" /\ u.query = "" /\ u.frag # ""

\* WebsiteCrawler._is_valid_url
StaticIsValidUrl(u, domain) ==
    /\ u.host = domain
    /\ u.scheme \in {"http", "https"}
    /\ Suffix(LastComponent(u)) \notin StaticSkipExtensions

\* JavaScriptWebsiteCrawler._is_valid_url
JsIsValidUrl(u, domain) ==
    /\ ~(u.host # "" /\ u.host # domain)
    /\ ~(u.scheme # "" /\ u.scheme \notin {"http", "https"})
    /\ Suffix(LastComponent(u)) \notin JsSkipExtensions
    /\ ~StartsWithHash(u)

IsValidUrl(k, u, domain) ==
    IF k = "static" THEN StaticIsValidUrl(u, domain) ELSE JsIsValidUrl(u, domain)

(***************************************************************************)
(* The sites of the model.  A site maps the path of a page of host a.com   *)
(* to the hrefs of its anchors, in document order.                         *)
(***************************************************************************)
Rel(p, f)  == Url("", "", p, "", f)            \* href="/about#team"
RelQ(p, q) == Url("", "", p, q, "")            \* href="/dl?file=a.pdf"

EmptyUrl    == Url("", "", "", "", "")
RootUrl     == Url("https", "a.com", "/", "", "")
RootFragUrl == Url("https", "a.com", "/", "", "top")
AboutUrl    == Url("https", "a.com", "/about", "", "")

SitePaths == {"/", "/about", "/contact", "/deep"}

SiteClique ==
    [p \in SitePaths |->
        CASE p = "/"        -> <<Rel("/about", ""), Rel("/contact", "")>>
          [] p = "/about"   -> <<Rel("/", ""), Rel("/contact", "")>>
          [] p = "/contact" -> <<Rel("/", ""), Rel("/about", "")>>
          [] OTHER          -> <<>>]

SiteChain ==
    [p \in SitePaths |->
        CASE p = "/"        -> <<Rel("/about", ""), Rel("/about", "")>>
          [] p = "/about"   -> <<Rel("/contact", "")>>
          [] p = "/contact" -> <<Rel("/deep", ""), Rel("/", "")>>
          [] OTHER          -> <<>>]

SiteFrag ==
    [p \in SitePaths |->
        CASE p = "/"        -> <<Rel("", "top"), Rel("/about", "team")>>
          [] p = "/about"   -> <<Rel("/", "top"), Rel("/contact", "")>>
          [] p = "/contact" -> <<>>
          [] OTHER          -> <<>>]

SiteMixed ==
    [p \in SitePaths |->
        CASE p = "/"        -> <<Url("https", "b.com", "/", "", ""), Rel("/doc.pdf", ""),
                                 Url("mailto", "", "x@a.com", "", ""), Rel("/contact", "")>>
          [] p = "/contact" -> <<RelQ("/about", "file=a.pdf"), Rel("/clip.mp4", ""),
                                 Rel("/deep", "")>>
          [] OTHER          -> <<>>]

Sites == {SiteClique, SiteChain, SiteFrag, SiteMixed}
BaseUrls == {RootUrl, RootFragUrl, AboutUrl}

\* The anchors of the document served for url (the fragment and the query
\* never change which document of the model is served).
Hrefs(s, url) ==
    IF url.host = "a.com" /\ url.path \in SitePaths THEN s[url.path] ELSE <<>>

(***************************************************************************)
(* Sequence helpers.                                                       *)
(***************************************************************************)
Range(s) == {s[i] : i \in 1..Len(s)}

RECURSIVE FilterSeq(_, _)
\* [x for x in s if x in keep]
FilterSeq(s, keep) ==
    IF s = <<>> THEN <<>>
    ELSE IF Head(s) \in keep THEN <<Head(s)>> \o FilterSeq(Tail(s), keep)
    ELSE FilterSeq(Tail(s), keep)

\* list(set(xs)): the distinct elements in an order the interpreter picks
Orderings(S) ==
    {s \in [1..Cardinality(S) -> S] : \A i, j \in 1..Cardinality(S) : i # j => s[i] # s[j]}

(***************************************************************************)
(* The crawler.                                                            *)
(***************************************************************************)
FetchOutcomes == {"ok", "exception", "status"}

\* _fetch_page (static): (html, soup) on status 200, (None, None) on any
\* exception or other status.  _crawl_page (js): the try/except around
\* page.goto and the `not response or response.status >= 400` test.
FetchPage_propagates(outcome) ==
    IF outcome = "ok" THEN "soup" ELSE IF outcome = "exception" THEN "raise" ELSE "none"
FetchPage(outcome) == IF outcome = "ok" THEN "soup" ELSE "none"

\* session.get(url) / page.goto(url) can only answer for an absolute http(s)
\* url; for any other string the call raises.
Fetchable(u) == u.scheme \in {"http", "https"} /\ u.host # ""

\* await asyncio.sleep(self.delay): reached only when the page was fetched
\* and recorded; a failed fetch returns [] before it.
DelayApplied(outcome) == FetchPage(outcome) = "soup"

MarkVisited_skip(visited, url) == visited
\* self.visited_urls.add(url)
MarkVisited(visited, url) == visited \cup {url}

Enqueue_front(frontier, entries) == entries \o frontier
\* urls_to_crawl.append((new_url, depth + 1)) for every new url
Enqueue(frontier, entries) == frontier \o entries

\* len(self.pages) >= self.max_pages
PageCapReached_off(n, cap) == n > cap
PageCapReached(n, cap) == n >= cap

\* depth > self.max_depth
DepthExceeded_off(depth, limit) == depth > limit + 1
DepthExceeded(depth, limit) == depth > limit

\* depth + 1 in urls_to_crawl.append((new_url, depth + 1))
ChildDepth(depth) == depth + 1

\* the absolute, fragment-stripped target of every anchor, in document order
AnchorTargets(s, url) ==
    LET hs == Hrefs(s, url)
    IN  [i \in 1..Len(hs) |-> StripFragment(UrlJoin(url, hs[i]))]

\* WebsiteCrawler._crawl_page, lines 140-151: new_urls
StaticNewUrls(s, url, domain, visited, npages, cap) ==
    FilterSeq(AnchorTargets(s, url),
              {u \in Range(AnchorTargets(s, url)) :
                  /\ StaticIsValidUrl(u, domain)
                  /\ u \notin visited
                  /\ ~PageCapReached(npages, cap)})

\* JavaScriptWebsiteCrawler._extract_links: the set of valid targets
JsLinkSet(s, url, domain) ==
    {u \in Range(AnchorTargets(s, url)) : JsIsValidUrl(u, domain)}

Init_Crawl ==
    /\ kind \in {"static", "js"}
    /\ site \in Sites
    /\ base_url \in BaseUrls
    /\ max_depth \in 0..MaxDepthBound
    /\ max_pages \in 1..MaxPagesBound
    /\ visited_urls = {}
    /\ pages = <<>>
    /\ urls_to_crawl = <<[url |-> base_url, depth |-> 0]>>
    /\ crawl_pc = "loop"
    /\ fetch_log = <<>>

Idle_Crawl ==
    /\ kind = "static"
    /\ site = SiteClique
    /\ base_url = RootUrl
    /\ max_depth = 0
    /\ max_pages = 1
    /\ visited_urls = {}
    /\ pages = <<>>
    /\ urls_to_crawl = <<>>
    /\ crawl_pc = "done"
    /\ fetch_log = <<>>

LoopCondition_early == urls_to_crawl # <<>> /\ Len(pages) + 1 < max_pages
\* while urls_to_crawl and len(self.pages) < self.max_pages
LoopCondition == urls_to_crawl # <<>> /\ ~PageCapReached(Len(pages), max_pages)

\* One iteration whose popped url is already visited: `continue`.
CrawlSkipVisited ==
    /\ crawl_pc = "loop"
    /\ LoopCondition
    /\ Head(urls_to_crawl).url \in visited_urls
    /\ urls_to_crawl' = Tail(urls_to_crawl)
    /\ UNCHANGED <<kind, site, base_url, max_depth, max_pages, visited_urls, pages,
                   crawl_pc, fetch_log>>
    /\ UNCHANGED <<chunkVars, indexVars, chatVars, callVars, pipeVars, loopVars>>

\* One iteration in which _crawl_page returns [] at its first test, before
\* the url is marked visited and before any fetch.
CrawlDiscard ==
    /\ crawl_pc = "loop"
    /\ LoopCondition
    /\ Head(urls_to_crawl).url \notin visited_urls
    /\ \/ DepthExceeded(Head(urls_to_crawl).depth, max_depth)
       \/ PageCapReached(Len(pages), max_pages)
    /\ urls_to_crawl' = Tail(urls_to_crawl)
    /\ UNCHANGED <<kind, site, base_url, max_depth, max_pages, visited_urls, pages,
                   crawl_pc, fetch_log>>
    /\ UNCHANGED <<chunkVars, indexVars, chatVars, callVars, pipeVars, loopVars>>

\* One iteration in which _crawl_page marks the url visited and fetches it,
\* and the fetch fails: no page, no new urls.
CrawlFetchFail ==
    /\ crawl_pc = "loop"
    /\ LoopCondition
    /\ LET e == Head(urls_to_crawl) IN
        /\ e.url \notin visited_urls
        /\ ~DepthExceeded(e.depth, max_depth)
        /\ ~PageCapReached(Len(pages), max_pages)
        /\ \E outcome \in FetchOutcomes \ {"ok"} :
            /\ visited_urls' = MarkVisited(visited_urls, e.url)
            /\ fetch_log' = Append(fetch_log,
                                   [url |-> e.url, depth |-> e.depth, outcome |-> outcome,
                                    slept |-> DelayApplied(outcome)])
            /\ IF FetchPage(outcome) = "none"
               THEN /\ urls_to_crawl' = Tail(urls_to_crawl)
                    /\ crawl_pc' = crawl_pc
               ELSE \* the failure propagates out of crawl()
                    /\ urls_to_crawl' = Tail(urls_to_crawl)
                    /\ crawl_pc' = "raised"
    /\ UNCHANGED <<kind, site, base_url, max_depth, max_pages, pages>>
    /\ UNCHANGED <<chunkVars, indexVars, chatVars, callVars, pipeVars, loopVars>>

\* One iteration in which the fetch succeeds: the page is recorded and the
\* new urls that are still unvisited are appended to the frontier.
CrawlFetchOk ==
    /\ crawl_pc = "loop"
    /\ LoopCondition
    /\ LET e == Head(urls_to_crawl)
           domain == Domain(base_url)
           visited1 == MarkVisited(visited_urls, e.url)
       IN
        /\ e.url \notin visited_urls
        /\ ~DepthExceeded(e.depth, max_depth)
        /\ ~PageCapReached(Len(pages), max_pages)
        /\ Fetchable(e.url)
        /\ FetchPage("ok") = "soup"
        /\ \E new_urls \in
                (IF kind = "static"
                 THEN {StaticNewUrls(site, e.url, domain, visited1, Len(pages), max_pages)}
                 ELSE {FilterSeq(o, {u \in Range(o) :
                                        u \notin visited1 /\ ~PageCapReached(Len(pages), max_pages)}) :
                          o \in Orderings(JsLinkSet(site, e.url, domain))}) :
            /\ visited_urls' = visited1
            /\ fetch_log' = Append(fetch_log,
                                   [url |-> e.url, depth |-> e.depth, outcome |-> "ok",
                                    slept |-> DelayApplied("ok")])
            /\ pages' = Append(pages,
                   [url   |-> e.url,
                    depth |-> e.depth,
                    links |-> IF kind = "static"
                              THEN Range(AnchorTargets(site, e.url))
                              ELSE JsLinkSet(site, e.url, domain)])
            /\ urls_to_crawl' = Enqueue(Tail(urls_to_crawl),
                   [i \in 1..Len(FilterSeq(new_urls, Range(new_urls) \ visited1)) |->
                       [url   |-> FilterSeq(new_urls, Range(new_urls) \ visited1)[i],
                        depth |-> ChildDepth(e.depth)]])
    /\ UNCHANGED <<kind, site, base_url, max_depth, max_pages, crawl_pc>>
    /\ UNCHANGED <<chunkVars, indexVars, chatVars, callVars, pipeVars, loopVars>>

\* The loop condition is false: crawl() returns self.pages.
CrawlReturn ==
    /\ crawl_pc = "loop"
    /\ ~LoopCondition
    /\ crawl_pc' = "done"
    /\ UNCHANGED <<kind, site, base_url, max_depth, max_pages, visited_urls, pages,
                   urls_to_crawl, fetch_log>>
    /\ UNCHANGED <<chunkVars, indexVars, chatVars, callVars, pipeVars, loopVars>>

Next_Crawl ==
    \/ CrawlSkipVisited
    \/ CrawlDiscard
    \/ CrawlFetchFail
    \/ CrawlFetchOk
    \/ CrawlReturn

(***************************************************************************)
(* The chunker: VectorStore._chunk_text.                                   *)
(* A text is a sequence of characters; the model's alphabet has a letter,  *)
(* the sentence terminator, a blank and the newline.                       *)
(***************************************************************************)
MaxTextLen   == 6       \* small texts have 0..MaxTextLen characters
MaxChunkSize == 5       \* chunk_size ranges over 1..MaxChunkSize
MaxSteps     == 8       \* loop iterations followed by the chunker specification
Fuel         == 64      \* loop iterations followed when index_pages calls the chunker

\* Page text as the crawlers produce it has blanks and no newlines; text
\* handed to the chunker directly may have newlines.
CrawledAlphabet == {"a", ".", " "}
RawAlphabet     == {"a", ".", "\n"}
Whitespace      == {" ", "\n"}

\* "c" * n
Repeat(c, n) == [i \in 1..n |-> c]

\* s[a:b] with Python's treatment of negative and out-of-range indices
PySlice(s, a, b) ==
    LET n  == Len(s)
        lo == IF a < 0 THEN Max(a + n, 0) ELSE Min(a, n)
        hi == IF b < 0 THEN Max(b + n, 0) ELSE Min(b, n)
    IN  IF lo < hi THEN SubSeq(s, lo + 1, hi) ELSE <<>>

\* s.rfind(c): the highest 0-based index of c in s, or -1
RFind(s, c) ==
    IF \E i \in 1..Len(s) : s[i] = c
    THEN (CHOOSE i \in 1..Len(s) : s[i] = c /\ \A j \in (i + 1)..Len(s) : s[j] # c) - 1
    ELSE -1

\* s.strip()
Strip(s) ==
    IF \A i \in 1..Len(s) : s[i] \in Whitespace THEN <<>>
    ELSE LET first == CHOOSE i \in 1..Len(s) :
                          s[i] \notin Whitespace /\ \A j \in 1..(i - 1) : s[j] \in Whitespace
             last  == CHOOSE i \in 1..Len(s) :
                          s[i] \notin Whitespace /\ \A j \in (i + 1)..Len(s) : s[j] \in Whitespace
         IN  SubSeq(s, first, last)

\* break_point > chunk_size * 0.5
PastHalfway(break_point, cs) == 2 * break_point > cs

\* The body of the while loop of _chunk_text for one value of start:
\* the stripped chunk that is appended, the end of the window and the next start.
ChunkIter(t, cs, ov, st) ==
    LET end0        == st + cs
        chunk0      == PySlice(t, st, end0)
        break_point == Max(RFind(chunk0, "."), RFind(chunk0, "\n"))
        shorten     == end0 < Len(t) /\ PastHalfway(break_point, cs)
        chunk       == IF shorten THEN PySlice(chunk0, 0, break_point + 1) ELSE chunk0
        end         == IF shorten THEN st + break_point + 1 ELSE end0
    IN  [chunk |-> Strip(chunk), start |-> st, end |-> end, next |-> end - ov]

RECURSIVE NonEmpty(_)
\* [c for c in chunks if c]
NonEmpty(cs) ==
    IF cs = <<>> THEN <<>>
    ELSE IF Head(cs) # <<>> THEN <<Head(cs)>> \o NonEmpty(Tail(cs))
    ELSE NonEmpty(Tail(cs))

RECURSIVE ChunkLoop(_, _, _, _, _, _)
\* The whole of _chunk_text as a function; hung when the loop is still
\* running after `fuel` iterations.
ChunkLoop(t, cs, ov, st, acc, fuel) ==
    IF ~(st < Len(t)) THEN [hung |-> FALSE, chunks |-> NonEmpty(acc)]
    ELSE IF fuel = 0 THEN [hung |-> TRUE, chunks |-> <<>>]
    ELSE LET it == ChunkIter(t, cs, ov, st)
         IN  ChunkLoop(t, cs, ov, it.next, Append(acc, it.chunk), fuel - 1)

ChunkText(t, cs, ov) == ChunkLoop(t, cs, ov, 0, <<>>, Fuel)

RECURSIVE TextsOfLen(_, _)
\* all texts of n characters over the alphabet
TextsOfLen(alphabet, n) ==
    IF n = 0 THEN {<<>>}
    ELSE {Append(t, c) : t \in TextsOfLen(alphabet, n - 1), c \in alphabet}

\* all texts of at most n characters, with blanks or with newlines
SmallTexts(n) ==
    UNION {TextsOfLen(CrawledAlphabet, k) \cup TextsOfLen(RawAlphabet, k) : k \in 0..n}

\* The page of end-to-end scenario B: 2500 characters, chunk_size 1000, overlap 200.
ScenarioB == [text |-> Repeat("a", 2500), chunk_size |-> 1000, overlap |-> 200]

Init_Chunk ==
    /\ \/ /\ text \in SmallTexts(MaxTextLen)
          /\ chunk_size \in 1..MaxChunkSize
          /\ overlap \in 0..(chunk_size + 1)
       \/ /\ text = ScenarioB.text
          /\ chunk_size = ScenarioB.chunk_size
          /\ overlap = ScenarioB.overlap
    /\ start = 0
    /\ chunks = <<>>
    /\ windows = <<>>
    /\ ck_pc = "loop"

Idle_Chunk ==
    /\ text = <<>>
    /\ chunk_size = 1
    /\ overlap = 0
    /\ start = 0
    /\ chunks = <<>>
    /\ windows = <<>>
    /\ ck_pc = "idle"

\* One iteration of `while start < len(text)`.
ChunkStep ==
    /\ ck_pc = "loop"
    /\ start < Len(text)
    /\ Len(windows) < MaxSteps
    /\ LET it == ChunkIter(text, chunk_size, overlap, start) IN
        /\ chunks' = Append(chunks, it.chunk)
        /\ windows' = Append(windows, <<it.start, it.end>>)
        /\ start' = it.next
    /\ UNCHANGED <<text, chunk_size, overlap, ck_pc>>
    /\ UNCHANGED <<crawlVars, indexVars, chatVars, callVars, pipeVars, loopVars>>

\* The loop condition is false: return the non-empty chunks.
ChunkReturn ==
    /\ ck_pc = "loop"
    /\ ~(start < Len(text))
    /\ chunks' = NonEmpty(chunks)
    /\ ck_pc' = "done"
    /\ UNCHANGED <<text, chunk_size, overlap, start, windows>>
    /\ UNCHANGED <<crawlVars, indexVars, chatVars, callVars, pipeVars, loopVars>>

Next_Chunk == ChunkStep \/ ChunkReturn


(***************************************************************************)
(* The index: VectorStore.index_pages, _get_embeddings and search.         *)
(***************************************************************************)
MaxTopK          == 2   \* top_k ranges over 1..MaxTopK
MaxEmbedFailures == 2   \* embedding batches that raise during one rebuild

HardCap        == 10000 \* len(chunk_text) > 10000
EmbedBatchSize == 5     \* batch_size of _get_embeddings
AddBatchSize   == 50    \* batch_size of the add loop of index_pages

\* h in chunk_text
IsSubstring(h, t) ==
    \E i \in 1..(Len(t) - Len(h) + 1) : SubSeq(t, i, i + Len(h) - 1) = h

\* The heading loop of index_pages: the first heading found in the chunk,
\* stored as '' when there is none.
HeadingOf(headings, chunk_text) ==
    IF \E i \in 1..Len(headings) : IsSubstring(headings[i], chunk_text)
    THEN headings[CHOOSE i \in 1..Len(headings) :
                      /\ IsSubstring(headings[i], chunk_text)
                      /\ \A j \in 1..(i - 1) : ~IsSubstring(headings[j], chunk_text)]
    ELSE <<>>

TooLarge_off(chunk_text) == Len(chunk_text) > HardCap + 1
\* if len(chunk_text) > 10000: continue
TooLarge(chunk_text) == Len(chunk_text) > HardCap

\* 'chunk_id': int(idx), idx from enumerate(page_chunks) (position i, 1-based
\* here); the number of chunks of the page kept so far plays no part in it.
ChunkIdOf(i, kept_before) == i - 1

RECURSIVE PagePassages(_, _, _, _)
\* The inner loop of index_pages over page_chunks from position i on;
\* kept counts the chunks of this page appended so far.
PagePassages(page, page_chunks, i, kept) ==
    IF i > Len(page_chunks) THEN <<>>
    ELSE IF TooLarge(page_chunks[i]) THEN PagePassages(page, page_chunks, i + 1, kept)
    ELSE <<[text     |-> page_chunks[i],
            metadata |-> [url      |-> page.url,
                          title    |-> page.title,
                          heading  |-> HeadingOf(page.headings, page_chunks[i]),
                          chunk_id |-> ChunkIdOf(i, kept)]]>>
         \o PagePassages(page, page_chunks, i + 1, kept + 1)

RECURSIVE AllPassages(_, _, _)
\* The outer loop of index_pages over pages; hung when a call of
\* _chunk_text does not return.
AllPassages(ps, cs, ov) ==
    IF ps = <<>> THEN [hung |-> FALSE, passages |-> <<>>]
    ELSE LET page_chunks == ChunkText(Head(ps).content, cs, ov)
         IN  IF page_chunks.hung THEN [hung |-> TRUE, passages |-> <<>>]
             ELSE LET rest == AllPassages(Tail(ps), cs, ov)
                  IN  [hung     |-> rest.hung,
                       passages |-> IF rest.hung THEN <<>>
                                    ELSE PagePassages(Head(ps), page_chunks.chunks, 1, 0)
                                         \o rest.passages]

\* f"chunk_{chunk_counter}"
ChunkIdString(counter) == <<"chunk_", counter>>

\* emb.values of the provider's embedding of one text
ModelVector(t) == [src |-> "model", of |-> t]
\* [0.0] * 768
ZeroVector == [src |-> "zeros", of |-> <<>>]

\* batch_embeddings = [emb.values for emb in embeddings]
ModelVectors(batch) == [j \in 1..Len(batch) |-> ModelVector(batch[j])]
\* [[0.0] * 768 for _ in batch]
FallbackVectors_single(batch) == <<ZeroVector>>
FallbackVectors(batch) == [j \in 1..Len(batch) |-> ZeroVector]

\* One pass through the body of the batch loop of _get_embeddings.
EmbedBatch(texts, i, acc, fails) ==
    LET batch == PySlice(texts, i, i + EmbedBatchSize)
    IN  acc \o (IF fails THEN FallbackVectors(batch) ELSE ModelVectors(batch))

\* The entries one collection.add call hands to the vector index.
Entries(embs, docs, metas, ids) ==
    [j \in 1..Len(docs) |->
        [id |-> ids[j], embedding |-> embs[j], document |-> docs[j], metadata |-> metas[j]]]

(* The pages handed to index_pages in the scenarios of the model. *)
Page(u, t, c, hs) == [url |-> u, title |-> t, content |-> c, headings |-> hs]

PageBilling ==
    Page("https://a.com/", "Home",
         <<"a", "a", ".", " ", "a", "\n", "a", "a">>, <<<<"a", "\n">>, <<"a", "a">>>>)
PageShort == Page("https://a.com/about", "About", <<"a", ".", "a">>, <<>>)
ManyUrls  == <<"https://a.com/m1", "https://a.com/m2", "https://a.com/m3">>
\* three pages of 17 one-character passages each: 51 passages, two add batches
PagesMany == [k \in 1..Len(ManyUrls) |-> Page(ManyUrls[k], "Many", Repeat("a", 17), <<>>)]
PageHuge  == Page("https://a.com/huge", "Huge", Repeat("a", 10003), <<>>)
PageBlank == Page("https://a.com/blank", "Blank", <<" ", " ">>, <<>>)

IndexInputs ==
    { [pages |-> <<PageBilling, PageShort>>, chunk_size |-> 3, overlap |-> 1],
      [pages |-> <<PageShort, PageBlank, PageBilling>>, chunk_size |-> 5, overlap |-> 2],
      [pages |-> PagesMany, chunk_size |-> 1, overlap |-> 0],
      [pages |-> <<PageShort, PageHuge>>, chunk_size |-> 10001, overlap |-> 0],
      [pages |-> <<PageShort>>, chunk_size |-> 2, overlap |-> 2],
      [pages |-> <<>>, chunk_size |-> 3, overlap |-> 1] }

\* A collection left by an earlier rebuild.
OldCollection ==
    Entries(<<ModelVector(<<"a", ".">>), ModelVector(<<"a">>)>>,
            <<<<"a", ".">>, <<"a">>>>,
            <<[url |-> "https://a.com/old", title |-> "Old", heading |-> <<>>, chunk_id |-> 0],
              [url |-> "https://a.com/old", title |-> "Old", heading |-> <<>>, chunk_id |-> 1]>>,
            <<ChunkIdString(0), ChunkIdString(1)>>)

Queries == {<<"a">>, <<"a", ".">>}

NoObservation ==
    [status |-> "none", entries |-> <<>>, top_k |-> 0, distances |-> <<>>, results |-> <<>>,
     begun |-> FALSE]

Init_Index ==
    /\ ip_cfg \in IndexInputs
    /\ coll \in {[exists |-> TRUE, entries |-> <<>>],
                 [exists |-> TRUE, entries |-> OldCollection]}
    /\ prev_coll = coll
    /\ all_texts = <<>>
    /\ all_metadatas = <<>>
    /\ all_ids = <<>>
    /\ embeddings = <<>>
    /\ emb_i = 0
    /\ failed_batches = {}
    /\ add_i = 0
    /\ ip_pc = "start"
    /\ seen = NoObservation

Idle_Index ==
    /\ ip_cfg = [pages |-> <<>>, chunk_size |-> 1, overlap |-> 0]
    /\ coll = [exists |-> TRUE, entries |-> <<>>]
    /\ prev_coll = coll
    /\ all_texts = <<>>
    /\ all_metadatas = <<>>
    /\ all_ids = <<>>
    /\ embeddings = <<>>
    /\ emb_i = 0
    /\ failed_batches = {}
    /\ add_i = 0
    /\ ip_pc = "idle"
    /\ seen = NoObservation

\* try: delete_collection(name) / except: pass
IndexDeleteCollection ==
    /\ ip_pc = "start"
    /\ \E ok \in BOOLEAN :
        coll' = IF ok THEN [exists |-> FALSE, entries |-> <<>>] ELSE coll
    /\ ip_pc' = "deleted"
    /\ UNCHANGED <<ip_cfg, prev_coll, all_texts, all_metadatas, all_ids, embeddings,
                   emb_i, failed_batches, add_i, seen>>
    /\ UNCHANGED <<crawlVars, chunkVars, chatVars, callVars, pipeVars, loopVars>>

IndexCreateCollection_get_or_create ==
    /\ ip_pc = "deleted"
    /\ ip_pc' = "created"
    /\ coll' = IF coll.exists THEN coll ELSE [exists |-> TRUE, entries |-> <<>>]
    /\ UNCHANGED <<ip_cfg, prev_coll, all_texts, all_metadatas, all_ids, embeddings,
                   emb_i, failed_batches, add_i, seen>>
    /\ UNCHANGED <<crawlVars, chunkVars, chatVars, callVars, pipeVars, loopVars>>

\* self.collection = create_collection(name): raises when the name still exists
IndexCreateCollection ==
    /\ ip_pc = "deleted"
    /\ IF coll.exists
       THEN /\ ip_pc' = "create_failed"
            /\ coll' = coll
       ELSE /\ ip_pc' = "created"
            /\ coll' = [exists |-> TRUE, entries |-> <<>>]
    /\ UNCHANGED <<ip_cfg, prev_coll, all_texts, all_metadatas, all_ids, embeddings,
                   emb_i, failed_batches, add_i, seen>>
    /\ UNCHANGED <<crawlVars, chunkVars, chatVars, callVars, pipeVars, loopVars>>

\* The loops over pages and page_chunks that fill all_texts, all_metadatas, all_ids.
IndexBuildChunks ==
    /\ ip_pc = "created"
    /\ LET r  == AllPassages(ip_cfg.pages, ip_cfg.chunk_size, ip_cfg.overlap)
           ps == r.passages
       IN
        IF r.hung
        THEN /\ ip_pc' = "hung"
             /\ UNCHANGED <<all_texts, all_metadatas, all_ids>>
        ELSE /\ all_texts' = [j \in 1..Len(ps) |-> ps[j].text]
             /\ all_metadatas' = [j \in 1..Len(ps) |-> ps[j].metadata]
             /\ all_ids' = [j \in 1..Len(ps) |-> ChunkIdString(j - 1)]
             /\ ip_pc' = IF Len(ps) = 0 THEN "add" ELSE "embed"
    /\ UNCHANGED <<ip_cfg, coll, prev_coll, embeddings, emb_i, failed_batches, add_i, seen>>
    /\ UNCHANGED <<crawlVars, chunkVars, chatVars, callVars, pipeVars, loopVars>>

\* One batch of _get_embeddings(all_texts); the provider call may raise.
IndexEmbedBatch ==
    /\ ip_pc = "embed"
    /\ emb_i < Len(all_texts)
    /\ \E fails \in BOOLEAN :
        /\ fails => Cardinality(failed_batches) < MaxEmbedFailures
        /\ pl_cfg.credentials = "rejected" => fails
        /\ embeddings' = EmbedBatch(all_texts, emb_i, embeddings, fails)
        /\ failed_batches' = IF fails THEN failed_batches \cup {emb_i} ELSE failed_batches
    /\ emb_i' = emb_i + EmbedBatchSize
    /\ ip_pc' = IF emb_i + EmbedBatchSize < Len(all_texts) THEN "embed" ELSE "add"
    /\ UNCHANGED <<ip_cfg, coll, prev_coll, all_texts, all_metadatas, all_ids, add_i, seen>>
    /\ UNCHANGED <<crawlVars, chunkVars, chatVars, callVars, pipeVars, loopVars>>

\* One pass of the add loop: collection.add(...) of one batch; the vector
\* index rejects a batch whose lists differ in length, and the call may fail.
IndexAddBatch ==
    /\ ip_pc = "add"
    /\ add_i < Len(all_texts)
    /\ LET batch_end == Min(add_i + AddBatchSize, Len(all_texts))
           embs  == PySlice(embeddings, add_i, batch_end)
           docs  == PySlice(all_texts, add_i, batch_end)
           metas == PySlice(all_metadatas, add_i, batch_end)
           ids   == PySlice(all_ids, add_i, batch_end)
       IN \E ok \in BOOLEAN :
            IF ok /\ Len(embs) = Len(docs)
            THEN /\ coll' = [coll EXCEPT !.entries = @ \o Entries(embs, docs, metas, ids)]
                 /\ add_i' = add_i + AddBatchSize
                 /\ ip_pc' = ip_pc
            ELSE /\ ip_pc' = "add_failed"
                 /\ UNCHANGED <<coll, add_i>>
    /\ UNCHANGED <<ip_cfg, prev_coll, all_texts, all_metadatas, all_ids, embeddings,
                   emb_i, failed_batches, seen>>
    /\ UNCHANGED <<crawlVars, chunkVars, chatVars, callVars, pipeVars, loopVars>>

\* The add loop is over: index_pages returns.
IndexFinish ==
    /\ ip_pc = "add"
    /\ ~(add_i < Len(all_texts))
    /\ ip_pc' = "done"
    /\ UNCHANGED <<ip_cfg, coll, prev_coll, all_texts, all_metadatas, all_ids, embeddings,
                   emb_i, failed_batches, add_i, seen>>
    /\ UNCHANGED <<crawlVars, chunkVars, chatVars, callVars, pipeVars, loopVars>>

\* Cosine distance between the query vector and a stored vector, in tenths.
Distance(qv, v) ==
    IF qv.src = "zeros" \/ v.src = "zeros" THEN 10
    ELSE IF qv.of = v.of THEN 0
    ELSE ((3 * Len(v.of) + 7 * Len(qv.of)) % 20) + 1

RECURSIVE Nearest(_, _, _, _)
\* collection.query(query_embeddings=[qv], n_results=k): the k nearest
\* entries among the positions in idx, nearest first.
Nearest(es, qv, idx, k) ==
    IF k = 0 \/ idx = {} THEN <<>>
    ELSE LET best == CHOOSE i \in idx : \A j \in idx :
                        \/ Distance(qv, es[i].embedding) < Distance(qv, es[j].embedding)
                        \/ /\ Distance(qv, es[i].embedding) = Distance(qv, es[j].embedding)
                           /\ i <= j
         IN  <<[entry |-> es[best], distance |-> Distance(qv, es[best].embedding)]>>
             \o Nearest(es, qv, idx \ {best}, k - 1)

Score_linear(distance) == [num |-> 20 - distance, den |-> 10]

\* score = 1 / (1 + distance), as a fraction (distance is in tenths)
Score(distance) == [num |-> 10, den |-> 10 + distance]

ChunksWithScores_reversed(rs) ==
    [i \in 1..Len(rs) |->
        [chunk |-> [text     |-> rs[Len(rs) + 1 - i].entry.document,
                    url      |-> rs[Len(rs) + 1 - i].entry.metadata.url,
                    title    |-> rs[Len(rs) + 1 - i].entry.metadata.title,
                    heading  |-> rs[Len(rs) + 1 - i].entry.metadata.heading,
                    chunk_id |-> rs[Len(rs) + 1 - i].entry.metadata.chunk_id],
         score |-> Score(rs[Len(rs) + 1 - i].distance)]]

\* The result loop of search: (DocumentChunk, score) pairs in the order returned.
ChunksWithScores(rs) ==
    [i \in 1..Len(rs) |->
        [chunk |-> [text     |-> rs[i].entry.document,
                    url      |-> rs[i].entry.metadata.url,
                    title    |-> rs[i].entry.metadata.title,
                    heading  |-> rs[i].entry.metadata.heading,
                    chunk_id |-> rs[i].entry.metadata.chunk_id],
         score |-> Score(rs[i].distance)]]

\* VectorStore.search(query, top_k) issued by a reader while index_pages
\* is anywhere between its first and its last statement.
Search ==
    /\ ip_pc # "idle"
    /\ \E query \in Queries, top_k \in 1..MaxTopK, fails \in BOOLEAN :
        LET qv == EmbedBatch(<<query>>, 0, <<>>, fails)[1]
            rs == Nearest(coll.entries, qv, 1..Len(coll.entries), top_k)
        IN  seen' = IF coll.exists
                    THEN [status    |-> "ok",
                          entries   |-> coll.entries,
                          top_k     |-> top_k,
                          distances |-> [i \in 1..Len(rs) |-> rs[i].distance],
                          results   |-> ChunksWithScores(rs),
                          begun     |-> ip_pc # "start"]
                    ELSE [status |-> "error", entries |-> <<>>, top_k |-> top_k,
                          distances |-> <<>>, results |-> <<>>,
                          begun |-> ip_pc # "start"]
    /\ UNCHANGED <<ip_cfg, coll, prev_coll, all_texts, all_metadatas, all_ids, embeddings,
                   emb_i, failed_batches, add_i, ip_pc>>
    /\ UNCHANGED <<crawlVars, chunkVars, chatVars, callVars, pipeVars, loopVars>>

Next_Index ==
    \/ IndexDeleteCollection
    \/ IndexCreateCollection
    \/ IndexBuildChunks
    \/ IndexEmbedBatch
    \/ IndexAddBatch
    \/ IndexFinish
    \/ Search

(***************************************************************************)
(* The chat workflow: WebsiteChatbotWorkflow.process_query and             *)
(* process_query_stream, the two executors, VertexAIChatClient and the     *)
(* API / CLI entry points that call them.                                  *)
(***************************************************************************)
MaxStatus == 1      \* WorkflowStatusEvents the framework emits during one run

DefaultTopK == 5    \* top_k: int = 5

ChatSurfaces   == {"process_query", "api_chat", "cli_chat"}
StreamSurfaces == {"process_query_stream", "api_chat_stream"}
SearchSurfaces == {"api_search", "cli_test"}
ApiSurfaces    == {"api_chat", "api_chat_stream", "api_search"}
CliSurfaces    == {"cli_chat", "cli_test"}
Surfaces       == ChatSurfaces \cup StreamSurfaces \cup SearchSurfaces

\* chat_history values a caller supplies: none, or one earlier turn
Histories ==
    { <<>>,
      <<[role |-> "user", content |-> <<"q0">>],
        [role |-> "assistant", content |-> <<"a0">>]>> }

NotReadyDetail ==
    "No indexed website found. Please index a website first using /api/index"

NoReply ==
    [kind |-> "none", status |-> 0, detail |-> "", answer |-> "",
     sources |-> <<>>, results |-> <<>>]

NoOutput == [has_answer |-> FALSE, query |-> <<>>, answer |-> "", sources |-> <<>>]

NoSearchResult == [query |-> <<>>, chunks |-> <<>>, sources |-> {}]

\* One entry of the timeline: a provider call, an event yielded by
\* process_query_stream, or an event written by event_generator.
Call(type, ok, messages) ==
    [kind |-> "call", type |-> type, ok |-> ok, messages |-> messages,
     content |-> "", sources |-> <<>>]
Event(k, type, content, sources) ==
    [kind |-> k, type |-> type, ok |-> TRUE, messages |-> <<>>,
     content |-> content, sources |-> sources]

\* The entries of the timeline of one kind, in order.
Timeline(tr, k) == SelectSeq(tr, LAMBDA e : e.kind = k)

\* VectorStore.load(): the collection holds at least one passage.
Load == coll.exists /\ Len(coll.entries) > 0

\* VectorStore.search(query, top_k) when collection.query answers.
VectorStoreSearch(query, top_k, embed_fails) ==
    LET qv == EmbedBatch(<<query>>, 0, <<>>, embed_fails)[1]
    IN  ChunksWithScores(Nearest(coll.entries, qv, 1..Len(coll.entries), top_k))

\* The chunk dictionaries WebsiteSearchAgent.search builds from the results.
ChunkData(results) ==
    [i \in 1..Len(results) |->
        [text    |-> results[i].chunk.text,
         url     |-> results[i].chunk.url,
         title   |-> results[i].chunk.title,
         heading |-> results[i].chunk.heading,
         score   |-> results[i].score]]

\* SearchResult(query, chunks, sources=list(set of urls))
MakeSearchResult(query, results) ==
    [query   |-> query,
     chunks  |-> ChunkData(results),
     sources |-> {results[i].chunk.url : i \in 1..Len(results)}]

RECURSIVE BuildContext(_, _)
\* _build_context: one block per chunk, numbered from 1.
BuildContext(cs, i) ==
    IF i > Len(cs) THEN <<>>
    ELSE <<"[Source", ToString(i), "]", cs[i].title>>
         \o (IF cs[i].heading # <<>> THEN <<" - ">> \o cs[i].heading ELSE <<>>)
         \o <<"URL: ", cs[i].url, "Content: ">> \o cs[i].text
         \o BuildContext(cs, i + 1)

\* The prompt message of process_search_result.
Prompt(sr) ==
    [role    |-> "user",
     content |-> <<"Context from website:">> \o BuildContext(sr.chunks, 1)
                 \o <<"User Question: ">> \o sr.query
                 \o <<"Please provide a comprehensive answer">>]

\* messages = [ChatMessage(role='user', content=prompt)]
ComposeMessages(sr, chat_history) == <<Prompt(sr)>>

RECURSIVE ExtractSourceUrls(_, _, _)
ExtractSourceUrls_per_match(cs, i, acc) ==
    [k \in 1..Len(cs) |->
        [url |-> cs[k].url, title |-> cs[k].title,
         sections |-> IF cs[k].heading # <<>> THEN {cs[k].heading} ELSE {}]]

\* _extract_source_urls: one source per url in order of first occurrence,
\* its sections the set of the non-empty headings of its chunks.
ExtractSourceUrls(cs, i, acc) ==
    IF i > Len(cs) THEN acc
    ELSE IF \E k \in 1..Len(acc) : acc[k].url = cs[i].url
         THEN ExtractSourceUrls(cs, i + 1, acc)
         ELSE ExtractSourceUrls(cs, i + 1,
                  Append(acc,
                         [url      |-> cs[i].url,
                          title    |-> cs[i].title,
                          sections |-> {cs[j].heading : j \in
                                           {n \in 1..Len(cs) :
                                               /\ cs[n].url = cs[i].url
                                               /\ cs[n].heading # <<>>}}]))

\* VertexAIChatClient.generate_response: the text of the model, or the
\* text of the caught exception.
GenerateResponse(provider_ok) ==
    IF provider_ok THEN "answer" ELSE "Error: provider failed"

\* The dictionary process_query returns.
FormatResponse(query, od) ==
    IF od.has_answer
    THEN [query |-> query, answer |-> od.answer, sources |-> od.sources]
    ELSE [query |-> query, answer |-> "Sorry, I could not process your query.",
          sources |-> <<>>]

\* What event_generator writes for a chunk of process_query_stream.
Relay(surface, ev) ==
    IF surface = "api_chat_stream" /\ ev.type \in {"sources", "token", "complete"}
    THEN <<Event("sse", ev.type, ev.content, ev.sources)>>
    ELSE <<>>

Init_Chat ==
    /\ request \in
          [surface : ChatSurfaces \cup StreamSurfaces, query : Queries,
           chat_history : Histories, top_k : 1..MaxTopK]
          \cup [surface : {"api_search"}, query : Queries,
                chat_history : {<<>>}, top_k : 1..MaxTopK]
          \cup [surface : {"cli_test"}, query : Queries,
                chat_history : {<<>>}, top_k : {DefaultTopK}]
    /\ vector_store \in
          IF request.surface \in ApiSurfaces
          THEN {[is_none |-> FALSE, collection_is_none |-> FALSE],
                [is_none |-> TRUE, collection_is_none |-> TRUE]}
          ELSE {[is_none |-> FALSE, collection_is_none |-> FALSE]}
    /\ search_request = [query |-> <<>>, top_k |-> 0]
    /\ search_result = NoSearchResult
    /\ output_data = NoOutput
    /\ sources_sent = FALSE
    /\ trace = <<>>
    /\ reply = NoReply
    /\ chat_pc = "start"

Idle_Chat ==
    /\ request = [surface |-> "process_query", query |-> <<>>,
                  chat_history |-> <<>>, top_k |-> DefaultTopK]
    /\ vector_store = [is_none |-> FALSE, collection_is_none |-> FALSE]
    /\ search_request = [query |-> <<>>, top_k |-> 0]
    /\ search_result = NoSearchResult
    /\ output_data = NoOutput
    /\ sources_sent = FALSE
    /\ trace = <<>>
    /\ reply = NoReply
    /\ chat_pc = "idle"

\* The index as a query-time process finds it: no rebuild in progress, the
\* collection empty (never built) or holding the passages of a build.
Loaded_Index ==
    /\ ip_cfg = [pages |-> <<>>, chunk_size |-> 1, overlap |-> 0]
    /\ coll \in {[exists |-> TRUE, entries |-> <<>>],
                 [exists |-> TRUE, entries |-> OldCollection]}
    /\ prev_coll = coll
    /\ all_texts = <<>>
    /\ all_metadatas = <<>>
    /\ all_ids = <<>>
    /\ embeddings = <<>>
    /\ emb_i = 0
    /\ failed_batches = {}
    /\ add_i = 0
    /\ ip_pc = "idle"
    /\ seen = NoObservation

\* POST /api/chat and POST /api/chat/stream, up to the call of the workflow.
ApiChatEntry ==
    /\ chat_pc = "start"
    /\ request.surface \in {"api_chat", "api_chat_stream"}
    /\ IF vector_store.is_none
       THEN /\ reply' = [NoReply EXCEPT !.kind = "http", !.status = 503,
                                            !.detail = "Service not initialized"]
            /\ chat_pc' = "done"
       ELSE IF vector_store.collection_is_none
       THEN /\ reply' = [NoReply EXCEPT !.kind = "http", !.status = 400,
                                            !.detail = NotReadyDetail]
            /\ chat_pc' = "done"
       ELSE /\ reply' = reply
            /\ chat_pc' = IF request.surface = "api_chat_stream"
                          THEN "sse_start" ELSE "call"
    /\ UNCHANGED <<request, vector_store, search_request, search_result, output_data,
                   sources_sent, trace>>
    /\ UNCHANGED <<crawlVars, chunkVars, indexVars, callVars, pipeVars, loopVars>>

\* POST /api/search, up to the call of vector_store.search.
ApiSearchEntry ==
    /\ chat_pc = "start"
    /\ request.surface = "api_search"
    /\ IF vector_store.is_none \/ vector_store.collection_is_none
       THEN /\ reply' = [NoReply EXCEPT !.kind = "http", !.status = 400,
                                            !.detail = NotReadyDetail]
            /\ chat_pc' = "done"
       ELSE /\ reply' = reply
            /\ chat_pc' = "call"
    /\ UNCHANGED <<request, vector_store, search_request, search_result, output_data,
                   sources_sent, trace>>
    /\ UNCHANGED <<crawlVars, chunkVars, indexVars, callVars, pipeVars, loopVars>>

\* run_chatbot and test_search, up to the call of chat() or search().
CliEntry ==
    /\ chat_pc = "start"
    /\ request.surface \in CliSurfaces
    /\ IF ~Load
       THEN /\ reply' = [NoReply EXCEPT !.kind = "printed",
                                            !.detail = "Error: No indexed website found!"]
            /\ chat_pc' = "done"
       ELSE /\ reply' = reply
            /\ chat_pc' = "call"
    /\ UNCHANGED <<request, vector_store, search_request, search_result, output_data,
                   sources_sent, trace>>
    /\ UNCHANGED <<crawlVars, chunkVars, indexVars, callVars, pipeVars, loopVars>>

\* event_generator: the first event written to the response.
SseStart ==
    /\ chat_pc = "sse_start"
    /\ trace' = Append(trace, Event("sse", "start", "", <<>>))
    /\ chat_pc' = "call"
    /\ UNCHANGED <<request, vector_store, search_request, search_result, output_data,
                   sources_sent, reply>>
    /\ UNCHANGED <<crawlVars, chunkVars, indexVars, callVars, pipeVars, loopVars>>

\* process_query / process_query_stream: the request handed to the workflow.
ProcessQueryBegin ==
    /\ request.surface \in ChatSurfaces \cup StreamSurfaces
    /\ \/ chat_pc = "call"
       \/ chat_pc = "start" /\ request.surface \in {"process_query", "process_query_stream"}
    /\ search_request' = [query |-> request.query, top_k |-> request.top_k]
    /\ sources_sent' = FALSE
    /\ output_data' = NoOutput
    /\ chat_pc' = "search_agent"
    /\ UNCHANGED <<request, vector_store, search_result, trace, reply>>
    /\ UNCHANGED <<crawlVars, chunkVars, indexVars, callVars, pipeVars, loopVars>>

SearchAgentSearch_stops_on_empty ==
    /\ chat_pc = "search_agent"
    /\ \E embed_fails \in BOOLEAN, query_fails \in BOOLEAN :
        LET calls == <<Call("embedding", ~embed_fails, <<>>),
                       Call("query", ~query_fails, <<>>)>>
            results == VectorStoreSearch(search_request.query, search_request.top_k,
                                         embed_fails)
        IN  /\ trace' = trace \o calls
            /\ IF query_fails \/ results = <<>>
               THEN /\ chat_pc' = "raised"
                    /\ search_result' = search_result
               ELSE /\ chat_pc' = "compose"
                    /\ search_result' = MakeSearchResult(search_request.query, results)
    /\ UNCHANGED <<request, vector_store, search_request, output_data, sources_sent,
                   reply>>
    /\ UNCHANGED <<crawlVars, chunkVars, indexVars, callVars, pipeVars, loopVars>>

\* WebsiteSearchAgent.search: the embedding call, the vector query, and
\* the SearchResult sent to the answer agent.
SearchAgentSearch ==
    /\ chat_pc = "search_agent"
    /\ \E embed_fails \in BOOLEAN, query_fails \in BOOLEAN :
        LET calls == <<Call("embedding", ~embed_fails, <<>>),
                       Call("query", ~query_fails, <<>>)>>
        IN  /\ trace' = trace \o calls
            /\ IF query_fails
               THEN /\ chat_pc' = "raised"
                    /\ search_result' = search_result
               ELSE /\ chat_pc' = "compose"
                    /\ search_result' =
                          MakeSearchResult(search_request.query,
                              VectorStoreSearch(search_request.query,
                                                search_request.top_k, embed_fails))
    /\ UNCHANGED <<request, vector_store, search_request, output_data, sources_sent,
                   reply>>
    /\ UNCHANGED <<crawlVars, chunkVars, indexVars, callVars, pipeVars, loopVars>>

ProcessSearchResult_retries ==
    /\ chat_pc = "compose"
    /\ \E provider_ok \in BOOLEAN :
        /\ trace' = trace \o
              (IF provider_ok THEN <<>>
               ELSE <<Call("completion", FALSE,
                           ComposeMessages(search_result, request.chat_history))>>)
              \o <<Call("completion", TRUE,
                        ComposeMessages(search_result, request.chat_history))>>
        /\ output_data' =
              [has_answer |-> TRUE,
               query      |-> search_result.query,
               answer     |-> GenerateResponse(TRUE),
               sources    |-> ExtractSourceUrls(search_result.chunks, 1, <<>>)]
    /\ chat_pc' = "output"
    /\ UNCHANGED <<request, vector_store, search_request, search_result, sources_sent,
                   reply>>
    /\ UNCHANGED <<crawlVars, chunkVars, indexVars, callVars, pipeVars, loopVars>>

\* AnswerGenerationAgent.process_search_result: the completion call and
\* the AnswerResponse yielded as the output of the workflow.
ProcessSearchResult ==
    /\ chat_pc = "compose"
    /\ \E provider_ok \in BOOLEAN :
        /\ trace' = Append(trace,
                       Call("completion", provider_ok,
                            ComposeMessages(search_result, request.chat_history)))
        /\ output_data' =
              [has_answer |-> TRUE,
               query      |-> search_result.query,
               answer     |-> GenerateResponse(provider_ok),
               sources    |-> ExtractSourceUrls(search_result.chunks, 1, <<>>)]
    /\ chat_pc' = "output"
    /\ UNCHANGED <<request, vector_store, search_request, search_result, sources_sent,
                   reply>>
    /\ UNCHANGED <<crawlVars, chunkVars, indexVars, callVars, pipeVars, loopVars>>

\* process_query: the output event is captured and the response returned,
\* to the caller, to POST /api/chat or to the loop of chat().
ProcessQueryReturn ==
    /\ chat_pc = "output"
    /\ request.surface \in ChatSurfaces
    /\ LET result == FormatResponse(request.query, output_data)
       IN  reply' =
              [NoReply EXCEPT
                  !.kind    = CASE request.surface = "api_chat" -> "http"
                                [] request.surface = "cli_chat" -> "printed"
                                [] OTHER -> "returned",
                  !.status  = IF request.surface = "api_chat" THEN 200 ELSE 0,
                  !.answer  = result.answer,
                  !.sources = result.sources]
    /\ chat_pc' = "done"
    /\ UNCHANGED <<request, vector_store, search_request, search_result, output_data,
                   sources_sent, trace>>
    /\ UNCHANGED <<crawlVars, chunkVars, indexVars, callVars, pipeVars, loopVars>>

\* process_query_stream: a WorkflowStatusEvent of the framework is yielded
\* as a status chunk; event_generator drops it.
StreamStatus ==
    /\ request.surface \in StreamSurfaces
    /\ chat_pc \in {"search_agent", "compose", "output", "token", "after_output", "raised"}
    /\ Len(SelectSeq(trace, LAMBDA e : e.type = "status")) < MaxStatus
    /\ trace' = Append(trace, Event("event", "status", "", <<>>))
    /\ UNCHANGED <<request, vector_store, search_request, search_result, output_data,
                   sources_sent, reply, chat_pc>>
    /\ UNCHANGED <<crawlVars, chunkVars, indexVars, callVars, pipeVars, loopVars>>

\* process_query_stream: the sources chunk of the output event.
StreamSources ==
    /\ chat_pc = "output"
    /\ request.surface \in StreamSurfaces
    /\ LET ev == Event("event", "sources", "", output_data.sources)
       IN  IF ~sources_sent
           THEN /\ trace' = Append(trace, ev) \o Relay(request.surface, ev)
                /\ sources_sent' = TRUE
           ELSE UNCHANGED <<trace, sources_sent>>
    /\ chat_pc' = "token"
    /\ UNCHANGED <<request, vector_store, search_request, search_result, output_data,
                   reply>>
    /\ UNCHANGED <<crawlVars, chunkVars, indexVars, callVars, pipeVars, loopVars>>

\* process_query_stream: the token chunk of the output event.
StreamToken ==
    /\ chat_pc = "token"
    /\ LET ev == Event("event", "token", output_data.answer, <<>>)
       IN  IF output_data.has_answer
           THEN trace' = Append(trace, ev) \o Relay(request.surface, ev)
           ELSE trace' = trace
    /\ chat_pc' = "after_output"
    /\ UNCHANGED <<request, vector_store, search_request, search_result, output_data,
                   sources_sent, reply>>
    /\ UNCHANGED <<crawlVars, chunkVars, indexVars, callVars, pipeVars, loopVars>>

\* process_query_stream: the complete chunk after the loop over the events.
StreamComplete ==
    /\ chat_pc = "after_output"
    /\ LET ev == Event("event", "complete", "", <<>>)
       IN  trace' = Append(trace, ev) \o Relay(request.surface, ev)
    /\ reply' = [NoReply EXCEPT
                      !.kind   = "stream_end",
                      !.status = IF request.surface = "api_chat_stream" THEN 200 ELSE 0]
    /\ chat_pc' = "done"
    /\ UNCHANGED <<request, vector_store, search_request, search_result, output_data,
                   sources_sent>>
    /\ UNCHANGED <<crawlVars, chunkVars, indexVars, callVars, pipeVars, loopVars>>

\* POST /api/search and test_search: vector_store.search and its results.
DirectSearch ==
    /\ chat_pc = "call"
    /\ request.surface \in SearchSurfaces
    /\ \E embed_fails \in BOOLEAN, query_fails \in BOOLEAN :
        /\ trace' = trace \o <<Call("embedding", ~embed_fails, <<>>),
                               Call("query", ~query_fails, <<>>)>>
        /\ IF query_fails
           THEN /\ chat_pc' = "raised"
                /\ reply' = reply
           ELSE /\ chat_pc' = "done"
                /\ reply' =
                      [NoReply EXCEPT
                          !.kind    = IF request.surface = "api_search"
                                      THEN "http" ELSE "printed",
                          !.status  = IF request.surface = "api_search" THEN 200 ELSE 0,
                          !.results = VectorStoreSearch(request.query, request.top_k,
                                                        embed_fails)]
    /\ UNCHANGED <<request, vector_store, search_request, search_result, output_data,
                   sources_sent>>
    /\ UNCHANGED <<crawlVars, chunkVars, indexVars, callVars, pipeVars, loopVars>>

\* except Exception of POST /api/chat and POST /api/search: HTTP 500.
ApiExcept ==
    /\ chat_pc = "raised"
    /\ request.surface \in {"api_chat", "api_search"}
    /\ reply' = [NoReply EXCEPT !.kind = "http", !.status = 500,
                                    !.detail = "Error processing request"]
    /\ chat_pc' = "done"
    /\ UNCHANGED <<request, vector_store, search_request, search_result, output_data,
                   sources_sent, trace>>
    /\ UNCHANGED <<crawlVars, chunkVars, indexVars, callVars, pipeVars, loopVars>>

ApiStreamExcept_resume ==
    /\ chat_pc = "raised"
    /\ request.surface = "api_chat_stream"
    /\ trace' = Append(trace, Event("sse", "error", "query failed", <<>>))
    /\ reply' = reply
    /\ chat_pc' = "after_output"
    /\ UNCHANGED <<request, vector_store, search_request, search_result, output_data,
                   sources_sent>>
    /\ UNCHANGED <<crawlVars, chunkVars, indexVars, callVars, pipeVars, loopVars>>

\* except Exception of event_generator: an error event, then the end of
\* the response.
ApiStreamExcept ==
    /\ chat_pc = "raised"
    /\ request.surface = "api_chat_stream"
    /\ trace' = Append(trace, Event("sse", "error", "query failed", <<>>))
    /\ reply' = [NoReply EXCEPT !.kind = "stream_end", !.status = 200]
    /\ chat_pc' = "done"
    /\ UNCHANGED <<request, vector_store, search_request, search_result, output_data,
                   sources_sent>>
    /\ UNCHANGED <<crawlVars, chunkVars, indexVars, callVars, pipeVars, loopVars>>

\* except Exception of the loop of chat(): the error is printed.
CliChatExcept ==
    /\ chat_pc = "raised"
    /\ request.surface = "cli_chat"
    /\ reply' = [NoReply EXCEPT !.kind = "printed", !.detail = "Error: query failed"]
    /\ chat_pc' = "done"
    /\ UNCHANGED <<request, vector_store, search_request, search_result, output_data,
                   sources_sent, trace>>
    /\ UNCHANGED <<crawlVars, chunkVars, indexVars, callVars, pipeVars, loopVars>>

\* No handler: the exception leaves process_query, process_query_stream or
\* test_search.
Uncaught ==
    /\ chat_pc = "raised"
    /\ request.surface \in {"process_query", "process_query_stream", "cli_test"}
    /\ reply' = [NoReply EXCEPT !.kind = "raised", !.detail = "query failed"]
    /\ chat_pc' = "done"
    /\ UNCHANGED <<request, vector_store, search_request, search_result, output_data,
                   sources_sent, trace>>
    /\ UNCHANGED <<crawlVars, chunkVars, indexVars, callVars, pipeVars, loopVars>>

Next_Chat ==
    \/ ApiChatEntry
    \/ ApiSearchEntry
    \/ CliEntry
    \/ SseStart
    \/ ProcessQueryBegin
    \/ SearchAgentSearch
    \/ ProcessSearchResult
    \/ ProcessQueryReturn
    \/ StreamStatus
    \/ StreamSources
    \/ StreamToken
    \/ StreamComplete
    \/ DirectSearch
    \/ ApiExcept
    \/ ApiStreamExcept
    \/ CliChatExcept
    \/ Uncaught

(***************************************************************************)
(* Pure functions called on their own: _is_valid_url of both crawlers and  *)
(* AnswerGenerationAgent._extract_source_urls.                             *)
(***************************************************************************)
MaxMatches == 3     \* a retrieval result holds 0..MaxMatches matches
MaxHeadings == 2    \* a document holds 0..MaxHeadings heading elements

NoCall == [fn |-> "none", kind |-> "static", malformed |-> FALSE,
           candidate |-> Url("", "", "", "", ""), domain |-> "", chunks |-> <<>>,
           doc |-> <<>>, passage |-> <<>>]
NoRet  == [done |-> FALSE, valid |-> FALSE, sources |-> <<>>,
           headings |-> <<>>, heading |-> <<>>]

\* Candidate URL strings, by component.
CandidateUrls ==
    { Url(s, h, p, q, f) :
        s \in {"", "https", "mailto"}, h \in {"", "a.com", "b.com"},
        p \in {"", "/about", "/doc.pdf", "/clip.mp4"}, q \in {"", "file=a.pdf"},
        f \in {"", "top"} }

\* _is_valid_url as a whole: urlparse raising on a malformed string is
\* caught by `except Exception: return False`.
IsValidUrlCall(k, malformed, u, domain) ==
    IF malformed THEN FALSE ELSE IsValidUrl(k, u, domain)

\* The matches of a retrieval result, as WebsiteSearchAgent.search builds them.
Match(u, h) == [text |-> <<"a">>, url |-> u, title |-> "T", heading |-> h,
                score |-> Score(0)]
Matches == {Match(u, h) : u \in {"u1", "u2"}, h \in {<<>>, <<"B">>, <<"S">>}}
MatchLists(n) == UNION {[1..m -> Matches] : m \in 0..n}

\* source['sections'] = list(set(source['sections'])): every source with
\* its sections as a list without duplicates, in an order the interpreter
\* picks.
SectionLists(srcs) ==
    { [k \in 1..Len(srcs) |->
          [url |-> srcs[k].url, title |-> srcs[k].title, sections |-> o[k]]] :
        o \in { f \in [1..Len(srcs) ->
                          UNION {Orderings(srcs[k].sections) : k \in 1..Len(srcs)}] :
                   \A k \in 1..Len(srcs) : f[k] \in Orderings(srcs[k].sections) } }

\* A heading element of a document: its level (the n of <hn>) and its text.
HeadingTag(l, t) == [level |-> l, text |-> t]
HeadingLevels == {1, 2, 6}
HeadingTexts  == {<<"A", "A">>, <<"B", "B">>, <<"C">>, <<" ">>}
\* The heading elements of a document, in document order.
Documents(n) == UNION {[1..m -> {HeadingTag(l, t) : l \in HeadingLevels, t \in HeadingTexts}] :
                          m \in 0..n}
Passages == {<<"A", "A", " ", "B", "B">>, <<"B", "B", "C">>, <<"a">>}

\* text = heading.get_text().strip(); if text: (static)
\* if text and len(text) > 1: (rendered)
KeepHeading(k, t) == Strip(t) # <<>> /\ (k = "js" => Len(Strip(t)) > 1)

RECURSIVE FindAll(_, _, _)
\* soup.find_all(tag): the kept texts of the elements of one level, in
\* document order.
FindAll(k, doc, level) ==
    IF doc = <<>> THEN <<>>
    ELSE (IF Head(doc).level = level /\ KeepHeading(k, Head(doc).text)
          THEN <<Strip(Head(doc).text)>> ELSE <<>>)
         \o FindAll(k, Tail(doc), level)

\* _extract_headings: for tag in ['h1', ..., 'h6']: for heading in soup.find_all(tag)
ExtractHeadings(k, doc) ==
    FindAll(k, doc, 1) \o FindAll(k, doc, 2) \o FindAll(k, doc, 3)
    \o FindAll(k, doc, 4) \o FindAll(k, doc, 5) \o FindAll(k, doc, 6)

\* 'heading': str(heading)[:200] if heading else ''
StoredHeading(h) == PySlice(h, 0, 200)

Init_Pure ==
    /\ call \in
          { [NoCall EXCEPT !.fn = "is_valid_url", !.kind = k, !.candidate = u,
                           !.domain = "a.com"] :
              k \in {"static", "js"}, u \in CandidateUrls }
          \cup { [NoCall EXCEPT !.fn = "is_valid_url", !.kind = k, !.malformed = TRUE,
                                !.domain = "a.com"] : k \in {"static", "js"} }
          \cup { [NoCall EXCEPT !.fn = "extract_source_urls", !.chunks = cs] :
                    cs \in MatchLists(MaxMatches) }
          \cup { [NoCall EXCEPT !.fn = "extract_headings", !.kind = k, !.doc = d,
                                !.passage = t] :
                    k \in {"static", "js"}, d \in Documents(MaxHeadings), t \in Passages }
    /\ ret = NoRet

Idle_Pure ==
    /\ call = NoCall
    /\ ret = NoRet

\* self._is_valid_url(url)
CallIsValidUrl ==
    /\ call.fn = "is_valid_url"
    /\ ~ret.done
    /\ ret' = [NoRet EXCEPT !.done = TRUE,
                            !.valid = IsValidUrlCall(call.kind, call.malformed,
                                                     call.candidate, call.domain)]
    /\ UNCHANGED call
    /\ UNCHANGED <<crawlVars, chunkVars, indexVars, chatVars, pipeVars, loopVars>>

\* self._extract_source_urls(search_result)
CallExtractSourceUrls ==
    /\ call.fn = "extract_source_urls"
    /\ ~ret.done
    /\ \E srcs \in SectionLists(ExtractSourceUrls(call.chunks, 1, <<>>)) :
          ret' = [NoRet EXCEPT !.done = TRUE, !.sources = srcs]
    /\ UNCHANGED call
    /\ UNCHANGED <<crawlVars, chunkVars, indexVars, chatVars, pipeVars, loopVars>>

\* headings = self._extract_headings(soup), then the heading loop of
\* index_pages for one passage of the page.
CallExtractHeadings ==
    /\ call.fn = "extract_headings"
    /\ ~ret.done
    /\ ret' = [NoRet EXCEPT
                 !.done = TRUE,
                 !.headings = ExtractHeadings(call.kind, call.doc),
                 !.heading = StoredHeading(HeadingOf(ExtractHeadings(call.kind, call.doc),
                                                     call.passage))]
    /\ UNCHANGED call
    /\ UNCHANGED <<crawlVars, chunkVars, indexVars, chatVars, pipeVars, loopVars>>

Next_Pure ==
    \/ CallIsValidUrl
    \/ CallExtractSourceUrls
    \/ CallExtractHeadings

(***************************************************************************)
(* The index pipeline: index_website of the CLI and POST /api/index.       *)
(***************************************************************************)
NoReport == [kind |-> "none", fetches_before |-> 0]

Idle_Pipe ==
    /\ pl_cfg = [surface |-> "cli", credentials |-> "ok"]
    /\ pl_report = NoReport
    /\ pl_pc = "idle"

\* page = WebPage(url=url, title=..., content=..., headings=...): the page
\* handed to index_pages for a page the crawl recorded.
WebPageOf(p) == Page(p.url.path, "Page", <<"a", ".", "a">>, <<>>)

\* The call: the url, depth and page limit of the command line or of the
\* IndexRequest (max_depth and max_pages at least 1), the crawler chosen,
\* and whether the provider accepts the credentials of the environment.
\* Nothing of the crawl or of the index rebuild has run.
Init_Pipe ==
    /\ pl_cfg \in [surface : {"cli", "api"}, credentials : {"ok", "rejected"}]
    /\ pl_report = NoReport
    /\ pl_pc = "start"
    /\ kind \in {"static", "js"}
    /\ site \in {SiteClique, SiteChain}
    /\ base_url \in {RootUrl, EmptyUrl}
    /\ max_depth \in 1..MaxDepthBound
    /\ max_pages \in 1..MaxPagesBound
    /\ visited_urls = {}
    /\ pages = <<>>
    /\ urls_to_crawl = <<>>
    /\ crawl_pc = "idle"
    /\ fetch_log = <<>>

\* main.py: if not website_url: print("Error: ..."); return
PipeRejectUrl ==
    /\ pl_pc = "start"
    /\ pl_cfg.surface = "cli"
    /\ base_url = EmptyUrl
    /\ pl_report' = [kind |-> "config", fetches_before |-> Len(fetch_log)]
    /\ pl_pc' = "failed"
    /\ UNCHANGED pl_cfg
    /\ UNCHANGED <<crawlVars, chunkVars, indexVars, chatVars, callVars, loopVars>>

\* The crawler is constructed and crawl() is entered:
\* urls_to_crawl = [(self.base_url, 0)].  POST /api/index has no test of
\* the url, the command line got past its test.
PipeStartCrawl ==
    /\ pl_pc = "start"
    /\ ~(pl_cfg.surface = "cli" /\ base_url = EmptyUrl)
    /\ urls_to_crawl' = <<[url |-> base_url, depth |-> 0]>>
    /\ crawl_pc' = "loop"
    /\ pl_pc' = "crawl"
    /\ UNCHANGED <<kind, site, base_url, max_depth, max_pages, visited_urls, pages,
                   fetch_log>>
    /\ UNCHANGED <<pl_cfg, pl_report>>
    /\ UNCHANGED <<chunkVars, indexVars, chatVars, callVars, loopVars>>

\* main.py, after the crawl: vector_store = VectorStore(...).  The
\* constructor contacts the provider (TextEmbeddingModel.from_pretrained)
\* and may raise there when the credentials are rejected; the API built its
\* store when the application started.
PipeStoreFail ==
    /\ pl_pc = "crawl"
    /\ crawl_pc = "done"
    /\ pl_cfg.surface = "cli"
    /\ pl_cfg.credentials = "rejected"
    /\ pl_report' = [kind |-> "config", fetches_before |-> Len(fetch_log)]
    /\ pl_pc' = "failed"
    /\ UNCHANGED pl_cfg
    /\ UNCHANGED <<crawlVars, chunkVars, indexVars, chatVars, callVars, loopVars>>

\* vector_store.index_pages(pages, chunk_size, chunk_overlap) is called
\* with the pages the crawl returned.
PipeCallIndexPages ==
    /\ pl_pc = "crawl"
    /\ crawl_pc = "done"
    /\ ip_pc = "idle"
    /\ ip_cfg' = [pages      |-> [i \in 1..Len(pages) |-> WebPageOf(pages[i])],
                  chunk_size |-> 3,
                  overlap    |-> 1]
    /\ prev_coll' = coll
    /\ ip_pc' = "start"
    /\ pl_pc' = "index"
    /\ UNCHANGED <<coll, all_texts, all_metadatas, all_ids, embeddings, emb_i,
                   failed_batches, add_i, seen>>
    /\ UNCHANGED <<pl_cfg, pl_report>>
    /\ UNCHANGED <<crawlVars, chunkVars, chatVars, callVars, loopVars>>

\* index_pages returned: vector_store.save(), then "Indexing Complete!" or
\* {"status": "success", ...}.
PipeReturn ==
    /\ pl_pc = "index"
    /\ ip_pc = "done"
    /\ pl_report' = [kind |-> "success", fetches_before |-> Len(fetch_log)]
    /\ pl_pc' = "done"
    /\ UNCHANGED pl_cfg
    /\ UNCHANGED <<crawlVars, chunkVars, indexVars, chatVars, callVars, loopVars>>

\* index_pages raised: the exception leaves the command, or becomes the
\* HTTP 500 of the except branch of the endpoint.
PipeRaise ==
    /\ pl_pc = "index"
    /\ ip_pc \in {"create_failed", "add_failed"}
    /\ pl_report' = [kind |-> "error", fetches_before |-> Len(fetch_log)]
    /\ pl_pc' = "failed"
    /\ UNCHANGED pl_cfg
    /\ UNCHANGED <<crawlVars, chunkVars, indexVars, chatVars, callVars, loopVars>>

Next_Pipe ==
    \/ PipeRejectUrl
    \/ PipeStartCrawl
    \/ CrawlSkipVisited
    \/ CrawlDiscard
    \/ CrawlFetchFail
    \/ CrawlFetchOk
    \/ CrawlReturn
    \/ PipeStoreFail
    \/ PipeCallIndexPages
    \/ IndexDeleteCollection
    \/ IndexCreateCollection
    \/ IndexBuildChunks
    \/ IndexEmbedBatch
    \/ IndexAddBatch
    \/ IndexFinish
    \/ PipeReturn
    \/ PipeRaise

(***************************************************************************)
(* The interactive chat loop: WebsiteChatbotWorkflow.chat.                 *)
(***************************************************************************)
MaxTurns   == 7     \* inputs read during one session
HistoryCap == 10    \* if len(chat_history) > 10: chat_history = chat_history[-10:]

\* {'role': role, 'content': ...}: the content of the entries of turn n is
\* the input and the answer of that turn.
HistoryEntry(role, n) == [role |-> role, content |-> n]

Truncate_oldest(h) == IF Len(h) > HistoryCap THEN PySlice(h, 0, HistoryCap) ELSE h
\* if len(chat_history) > 10: chat_history = chat_history[-10:]
Truncate(h) == IF Len(h) > HistoryCap THEN PySlice(h, 0 - HistoryCap, Len(h)) ELSE h

Init_Loop ==
    /\ history = <<>>
    /\ asked = <<>>
    /\ turn = 0
    /\ loop_pc = "input"

Idle_Loop ==
    /\ history = <<>>
    /\ asked = <<>>
    /\ turn = 0
    /\ loop_pc = "idle"

\* user_input is empty after strip(): continue
LoopEmptyInput ==
    /\ loop_pc = "input"
    /\ turn < MaxTurns
    /\ turn' = turn + 1
    /\ UNCHANGED <<history, asked, loop_pc>>
    /\ UNCHANGED <<crawlVars, chunkVars, indexVars, chatVars, callVars, pipeVars>>

\* 'exit', 'quit' or 'bye', or KeyboardInterrupt: break
LoopExit ==
    /\ loop_pc = "input"
    /\ loop_pc' = "done"
    /\ UNCHANGED <<history, asked, turn>>
    /\ UNCHANGED <<crawlVars, chunkVars, indexVars, chatVars, callVars, pipeVars>>

\* process_query returned and the answer and sources were printed: the two
\* entries of the turn are appended and the list is cut to its last entries.
LoopAnswered ==
    /\ loop_pc = "input"
    /\ turn < MaxTurns
    /\ turn' = turn + 1
    /\ asked' = Append(asked, [turn |-> turn + 1, passed |-> history, outcome |-> "answered"])
    /\ history' = Truncate(history \o <<HistoryEntry("user", turn + 1),
                                         HistoryEntry("assistant", turn + 1)>>)
    /\ UNCHANGED loop_pc
    /\ UNCHANGED <<crawlVars, chunkVars, indexVars, chatVars, callVars, pipeVars>>

\* process_query, or the printing of its result, raised: except Exception
\* prints the error and the loop goes on.
LoopRaised ==
    /\ loop_pc = "input"
    /\ turn < MaxTurns
    /\ turn' = turn + 1
    /\ asked' = Append(asked, [turn |-> turn + 1, passed |-> history, outcome |-> "raised"])
    /\ UNCHANGED <<history, loop_pc>>
    /\ UNCHANGED <<crawlVars, chunkVars, indexVars, chatVars, callVars, pipeVars>>

Next_Loop ==
    \/ LoopEmptyInput
    \/ LoopExit
    \/ LoopAnswered
    \/ LoopRaised

(***************************************************************************)
(* The specifications.                                                     *)
(***************************************************************************)
InitCrawl == Init_Crawl /\ Idle_Chunk /\ Idle_Index /\ Idle_Chat /\ Idle_Pure /\ Idle_Pipe /\ Idle_Loop
SpecCrawl == InitCrawl /\ [][Next_Crawl]_vars
\* crawl() is one coroutine and every fetch has a timeout: an iteration
\* that can be taken is taken.
SpecCrawlLive == SpecCrawl /\ WF_vars(Next_Crawl)

InitChunk == Idle_Crawl /\ Init_Chunk /\ Idle_Index /\ Idle_Chat /\ Idle_Pure /\ Idle_Pipe /\ Idle_Loop
SpecChunk == InitChunk /\ [][Next_Chunk]_vars

InitIndex == Idle_Crawl /\ Idle_Chunk /\ Init_Index /\ Idle_Chat /\ Idle_Pure /\ Idle_Pipe /\ Idle_Loop
SpecIndex == InitIndex /\ [][Next_Index]_vars

InitChat == Idle_Crawl /\ Idle_Chunk /\ Loaded_Index /\ Init_Chat /\ Idle_Pure /\ Idle_Pipe /\ Idle_Loop
SpecChat == InitChat /\ [][Next_Chat]_vars

InitPure == Idle_Crawl /\ Idle_Chunk /\ Idle_Index /\ Idle_Chat /\ Init_Pure /\ Idle_Pipe /\ Idle_Loop
SpecPure == InitPure /\ [][Next_Pure]_vars

InitLoop == Idle_Crawl /\ Idle_Chunk /\ Idle_Index /\ Idle_Chat /\ Idle_Pure /\ Idle_Pipe
            /\ Init_Loop
SpecLoop == InitLoop /\ [][Next_Loop]_vars

InitPipe == Init_Pipe /\ Idle_Chunk /\ Loaded_Index /\ Idle_Chat /\ Idle_Pure /\ Idle_Loop
SpecPipe == InitPipe /\ [][Next_Pipe]_vars

(***************************************************************************)
(* Properties of the crawler (SpecCrawl).                                  *)
(***************************************************************************)

\* C1: in every reachable state of crawl(), for both crawlers, the number
\* of recorded pages is at most max_pages.
TheoremC1 == Len(pages) <= max_pages

\* The page cap stopped a crawl whose frontier was not yet empty.
WitnessC1 ==
    /\ crawl_pc = "done"
    /\ Len(pages) = max_pages
    /\ urls_to_crawl # <<>>

\* C2: when the fetch of the origin fails (exception or error status),
\* crawl() records no page, has nothing left to process and returns
\* normally: the failure never propagates out of crawl().
TheoremC2 ==
    (fetch_log # <<>> /\ fetch_log[1].outcome # "ok") =>
        /\ fetch_log[1].url = base_url
        /\ crawl_pc \in {"loop", "done"}
        /\ pages = <<>>
        /\ urls_to_crawl = <<>>
        /\ Len(fetch_log) = 1
        /\ crawl_pc = "loop" => ~LoopCondition

\* crawl() of the rendered crawler has returned after the origin's fetch raised.
WitnessC2 ==
    /\ crawl_pc = "done"
    /\ kind = "js"
    /\ Len(fetch_log) = 1
    /\ fetch_log[1].url = base_url
    /\ fetch_log[1].outcome = "exception"
    /\ pages = <<>>

\* C3: every recorded page's url is canonical (no fragment) and no two
\* recorded pages share the same canonical URL, also when the origin URL
\* carries a fragment.
ClaimC3 ==
    /\ \A i \in 1..Len(pages) : pages[i].url.frag = ""
    /\ \A i, j \in 1..Len(pages) :
          i # j => StripFragment(pages[i].url) # StripFragment(pages[j].url)

\* C4: every recorded page was fetched at a depth in 0..max_depth, the
\* origin at depth 0; a frontier entry found on a page of depth d has depth
\* d+1; no fetch is ever issued for an entry deeper than max_depth.
TheoremC4 ==
    /\ \A i \in 1..Len(pages) : pages[i].depth >= 0 /\ pages[i].depth <= max_depth
    /\ \A i \in 1..Len(fetch_log) : fetch_log[i].depth >= 0 /\ fetch_log[i].depth <= max_depth
    /\ fetch_log # <<>> => fetch_log[1].url = base_url /\ fetch_log[1].depth = 0
    /\ \A i \in 1..Len(pages) : pages[i].url = base_url => pages[i].depth = 0
    /\ \A i \in 1..Len(urls_to_crawl) :
          \/ urls_to_crawl[i] = [url |-> base_url, depth |-> 0]
          \/ \E j \in 1..Len(pages) :
                /\ urls_to_crawl[i].depth = pages[j].depth + 1
                /\ urls_to_crawl[i].url \in pages[j].links

\* A crawl ended below the page cap with a page recorded at depth max_depth
\* whose in-scope link was never fetched: its entry was discarded for depth.
WitnessC4 ==
    /\ crawl_pc = "done"
    /\ max_depth >= 1
    /\ Len(pages) < max_pages
    /\ \E i \in 1..Len(pages) :
          /\ pages[i].depth = max_depth
          /\ \E u \in pages[i].links :
                /\ IsValidUrl(kind, u, Domain(base_url))
                /\ u \notin visited_urls

(***************************************************************************)
(* Properties of the chunker (SpecChunk).                                  *)
(***************************************************************************)

\* C5: for 0 <= overlap < chunk_size the window start strictly increases
\* on every iteration of _chunk_text, also when the chunk is shortened to
\* end at a break point.
ClaimC5 ==
    [][(overlap < chunk_size /\ windows' # windows) => start' > start]_vars

\* C7: the 2500-character page with chunk_size 1000 and overlap 200 yields
\* exactly 3 passages; each next window starts overlap characters before
\* the end of the previous one, and no window lies entirely inside the
\* previous window.
ClaimC7 ==
    /\ (ck_pc = "done" /\ Len(text) = 2500 /\ chunk_size = 1000 /\ overlap = 200)
          => Len(chunks) = 3
    /\ overlap < chunk_size =>
          \A i \in 2..Len(windows) :
              /\ windows[i][1] = windows[i - 1][2] - overlap
              /\ Min(windows[i][2], Len(text)) > Min(windows[i - 1][2], Len(text))

\* C8: with overlap >= chunk_size on a non-empty text the chunker reports
\* a configuration error before any chunk is produced: no iteration of the
\* loop is ever executed.
ClaimC8 ==
    (overlap >= chunk_size /\ Len(text) > 0) => (windows = <<>> /\ chunks = <<>>)

(***************************************************************************)
(* Properties of the index rebuild (SpecIndex).                            *)
(***************************************************************************)

\* C6: the chunk_id values of the passages stored for one page are exactly
\* 0..n-1 in walk order, also when a chunk of the page was skipped for
\* exceeding the hard cap.
ClaimC6 ==
    ip_pc = "done" =>
        \A j \in 1..Len(coll.entries) :
            coll.entries[j].metadata.chunk_id =
                Cardinality({i \in 1..(j - 1) :
                                coll.entries[i].metadata.url = coll.entries[j].metadata.url})

\* The collection index_pages is building, once every passage is embedded.
NewCollection == Entries(embeddings, all_texts, all_metadatas, all_ids)

\* C9: every search concurrent with a rebuild observes either the complete
\* previous collection or the complete new one, and a rebuild that aborts
\* while adding batches does not leave a subset of the new passages.
ClaimC9 ==
    /\ seen.status # "none" =>
          /\ seen.status = "ok"
          /\ \/ seen.entries = prev_coll.entries
             \/ /\ ip_pc \in {"add", "done", "add_failed"}
                /\ seen.entries = NewCollection
    /\ ip_pc = "add_failed" =>
          \/ coll.entries = prev_coll.entries
          \/ coll.entries = NewCollection

\* C10: whichever embedding batches fail, _get_embeddings yields one vector
\* per text in input order, the placeholder for exactly the texts of the
\* failed batches; index_pages is never aborted by it and the finished
\* rebuild stores one entry per passage.
TheoremC10 ==
    /\ ip_pc \in {"embed", "add", "done", "add_failed"} =>
          /\ Len(embeddings) = Min(emb_i, Len(all_texts))
          /\ \A j \in 1..Len(embeddings) :
                embeddings[j] =
                    IF ((j - 1) \div EmbedBatchSize) * EmbedBatchSize \in failed_batches
                    THEN ZeroVector
                    ELSE ModelVector(all_texts[j])
    /\ ip_pc \in {"add", "done", "add_failed"} => Len(embeddings) = Len(all_texts)
    /\ ip_pc = "done" =>
          /\ Len(coll.entries) = Len(all_texts)
          /\ \A j \in 1..Len(all_texts) :
                /\ coll.entries[j].document = all_texts[j]
                /\ coll.entries[j].embedding = embeddings[j]

\* A rebuild of more than one embedding batch finished after some batch
\* failed and some batch succeeded, and every passage is stored.
WitnessC10 ==
    /\ ip_pc = "done"
    /\ Len(all_texts) > EmbedBatchSize
    /\ failed_batches # {}
    /\ Len(coll.entries) = Len(all_texts)
    /\ \E j \in 1..Len(coll.entries) : coll.entries[j].embedding = ZeroVector
    /\ \E j \in 1..Len(coll.entries) : coll.entries[j].embedding # ZeroVector

\* C11: a search with top_k >= 1 returns at most top_k pairs, in
\* non-increasing score order, and fewer than top_k only when the
\* collection holds fewer than top_k passages.
TheoremC11 ==
    seen.status = "ok" =>
        /\ Len(seen.results) <= seen.top_k
        /\ \A i \in 1..(Len(seen.results) - 1) :
              seen.results[i].score.num * seen.results[i + 1].score.den
                  >= seen.results[i + 1].score.num * seen.results[i].score.den
        /\ Len(seen.results) < seen.top_k => Len(seen.entries) < seen.top_k

\* A search over more passages than top_k returned exactly top_k pairs with
\* two different scores.
WitnessC11 ==
    /\ seen.status = "ok"
    /\ seen.top_k = MaxTopK
    /\ Len(seen.entries) > seen.top_k
    /\ Len(seen.results) = seen.top_k
    /\ seen.results[1].score # seen.results[2].score

\* C12: every returned score equals 1/(1+d) for the distance d the index
\* reported for that passage (d in tenths: score = 10/(10+d)), lies in
\* (0, 1], and of two returned passages the nearer has the larger score.
TheoremC12 ==
    seen.status = "ok" =>
        /\ Len(seen.results) = Len(seen.distances)
        /\ \A i \in 1..Len(seen.results) :
              /\ seen.results[i].score.num * (10 + seen.distances[i])
                     = 10 * seen.results[i].score.den
              /\ seen.results[i].score.den > 0
              /\ seen.results[i].score.num > 0
              /\ seen.results[i].score.num <= seen.results[i].score.den
        /\ \A i, j \in 1..Len(seen.results) :
              seen.distances[i] < seen.distances[j] =>
                  seen.results[i].score.num * seen.results[j].score.den
                      > seen.results[j].score.num * seen.results[i].score.den

\* A search returned one passage at distance 0 (score 1) and one at a
\* distance of at least 1 (score at most 1/2).
WitnessC12 ==
    /\ seen.status = "ok"
    /\ Len(seen.results) = 2
    /\ seen.distances[1] = 0
    /\ seen.distances[2] >= 10
    /\ seen.results[1].score.num = seen.results[1].score.den
    /\ 2 * seen.results[2].score.num <= seen.results[2].score.den

(***************************************************************************)
(* Properties of the chat workflow (SpecChat).                             *)
(***************************************************************************)

\* The chunks process_query_stream yielded, and the events POST
\* /api/chat/stream wrote, so far.
Chunks    == Timeline(trace, "event")
SseEvents == Timeline(trace, "sse")

\* The workflow was run for the request.
WorkflowRan == \E i \in 1..Len(trace) : trace[i].kind = "call"

\* Number of events of one type in a sequence of events.
CountOf(es, type) == Cardinality({i \in 1..Len(es) : es[i].type = type})

\* sources at most once and before every token; complete exactly once, last.
Ordered(es) ==
    /\ CountOf(es, "sources") <= 1
    /\ \A i, j \in 1..Len(es) :
          (es[i].type = "sources" /\ es[j].type = "token") => i < j
    /\ CountOf(es, "complete") = 1
    /\ es[Len(es)].type = "complete"

\* The completion call of the run raised inside generate_response.
CompletionFailed ==
    \E i \in 1..Len(trace) :
        trace[i].kind = "call" /\ trace[i].type = "completion" /\ ~trace[i].ok

\* C13: in every finished run of process_query_stream, and in what POST
\* /api/chat/stream relays of it, sources occurs at most once and before
\* every token, and complete occurs exactly once as the last event.
ClaimC13 ==
    (request.surface \in StreamSurfaces /\ chat_pc = "done" /\ WorkflowRan) =>
        /\ Ordered(Chunks)
        /\ request.surface = "api_chat_stream" => Ordered(SseEvents)

\* C14: the sources event of a streaming chat is emitted before the
\* Compose stage issues its completion request.
ClaimC14 ==
    \A i, j \in 1..Len(trace) :
        ( /\ trace[i].kind = "event" /\ trace[i].type = "sources"
          /\ trace[j].kind = "call" /\ trace[j].type = "completion" ) => i < j

\* C15: when the completion call fails during process_query or POST
\* /api/chat, the caller gets an error and no answer text.
ClaimC15 ==
    ( /\ request.surface \in {"process_query", "api_chat"}
      /\ chat_pc = "done"
      /\ CompletionFailed ) =>
        /\ reply.answer = ""
        /\ \/ reply.kind = "raised"
           \/ reply.kind = "http" /\ reply.status >= 400

\* C16: a finished chat-stream call on a ready index delivered exactly one
\* sources event and exactly one complete event, the last one, whatever
\* failed during the run.
ClaimC16 ==
    ( /\ request.surface \in StreamSurfaces
      /\ chat_pc = "done"
      /\ ~vector_store.is_none
      /\ Load ) =>
        LET es == IF request.surface = "api_chat_stream" THEN SseEvents ELSE Chunks
        IN  /\ CountOf(es, "sources") = 1
            /\ CountOf(es, "complete") = 1
            /\ es # <<>> /\ es[Len(es)].type = "complete"

\* C17: when the completion provider errors during a streaming chat, the
\* caller is sent an error event and no token event carries the
\* provider's error text.
ClaimC17 ==
    ( /\ request.surface \in StreamSurfaces
      /\ chat_pc = "done"
      /\ CompletionFailed ) =>
        /\ \E i \in 1..Len(trace) :
              trace[i].kind \in {"event", "sse"} /\ trace[i].type = "error"
        /\ \A i \in 1..Len(trace) :
              trace[i].type = "token" => trace[i].content # GenerateResponse(FALSE)

\* C18: in the events written by POST /api/chat/stream, an error event is
\* the last event.
TheoremC18 ==
    \A i \in 1..Len(SseEvents) : SseEvents[i].type = "error" => i = Len(SseEvents)

\* The response of a streaming chat whose vector query raised is over: it
\* holds the start event and then the error event.
WitnessC18 ==
    /\ request.surface = "api_chat_stream"
    /\ chat_pc = "done"
    /\ Len(SseEvents) = 2
    /\ SseEvents[1].type = "start"
    /\ SseEvents[2].type = "error"

\* C19: with a non-empty chat_history, the messages sent to the completion
\* provider are the history entries in order followed by the prompt.
ClaimC19 ==
    request.chat_history # <<>> =>
        \A i \in 1..Len(trace) :
            (trace[i].kind = "call" /\ trace[i].type = "completion") =>
                trace[i].messages = request.chat_history \o <<Prompt(search_result)>>

\* C20: a search or chat request of the CLI or the API on an index that
\* holds no passages ends with the not-ready error, and no embedding,
\* vector query or completion call was made for it.
ClaimC20 ==
    ( /\ request.surface \in ApiSurfaces \cup CliSurfaces
      /\ chat_pc = "done"
      /\ ~vector_store.is_none
      /\ Len(coll.entries) = 0 ) =>
        /\ \/ reply.kind = "http" /\ reply.status = 400 /\ reply.detail = NotReadyDetail
           \/ reply.kind = "printed" /\ reply.detail = "Error: No indexed website found!"
        /\ ~WorkflowRan

\* The calls of one type made so far, as positions of the timeline.
CallsOf(type) ==
    {i \in 1..Len(trace) : trace[i].kind = "call" /\ trace[i].type = type}

\* C21: per query the workflow makes at most one vector query and at most
\* one completion request, the completion request only after the vector
\* query has answered, and a run whose Search stage produced its result
\* ends after exactly one completion request.
TheoremC21 ==
    request.surface \in ChatSurfaces \cup StreamSurfaces =>
        /\ Cardinality(CallsOf("query")) <= 1
        /\ Cardinality(CallsOf("completion")) <= 1
        /\ \A j \in CallsOf("completion") :
              \E i \in CallsOf("query") : i < j /\ trace[i].ok
        /\ (chat_pc \in {"compose", "output", "token", "after_output"})
              => \E i \in CallsOf("query") : trace[i].ok
        /\ (chat_pc = "done" /\ \E i \in CallsOf("query") : trace[i].ok)
              => Cardinality(CallsOf("completion")) = 1

\* A chat request is over after the embedding call, the vector query and
\* one completion request that failed inside the provider, in that order.
WitnessC21 ==
    /\ request.surface = "api_chat"
    /\ chat_pc = "done"
    /\ Len(trace) = 3
    /\ trace[2].type = "query" /\ trace[2].ok
    /\ trace[3].type = "completion" /\ ~trace[3].ok

\* C22: when the vector query answers with zero matches, the empty
\* SearchResult still reaches the answer agent, the completion request is
\* still made, and the run ends with an answer whose citation list is
\* empty, not with an error.
TheoremC22 ==
    ( /\ request.surface \in ChatSurfaces \cup StreamSurfaces
      /\ \E i \in CallsOf("query") : trace[i].ok
      /\ search_result.chunks = <<>> ) =>
        /\ chat_pc \in {"compose", "output", "token", "after_output", "done"}
        /\ chat_pc # "compose" =>
              /\ Cardinality(CallsOf("completion")) = 1
              /\ output_data.has_answer
              /\ output_data.sources = <<>>
        /\ chat_pc = "done" =>
              /\ reply.kind \in {"returned", "printed", "http", "stream_end"}
              /\ reply.kind = "http" => reply.status = 200
              /\ request.surface \in ChatSurfaces =>
                    reply.answer = output_data.answer /\ reply.sources = <<>>
              /\ request.surface \in StreamSurfaces =>
                    /\ CountOf(Chunks, "sources") = 1
                    /\ CountOf(Chunks, "token") = 1
                    /\ \A i \in 1..Len(Chunks) :
                          Chunks[i].type = "sources" => Chunks[i].sources = <<>>

\* process_query returned the provider's answer with no citation after a
\* vector query on an empty collection.
WitnessC22 ==
    /\ request.surface = "process_query"
    /\ chat_pc = "done"
    /\ Len(coll.entries) = 0
    /\ \E i \in CallsOf("query") : trace[i].ok
    /\ Cardinality(CallsOf("completion")) = 1
    /\ reply.kind = "returned"
    /\ reply.answer = GenerateResponse(TRUE)
    /\ reply.sources = <<>>

(***************************************************************************)
(* Properties of the pure functions (SpecPure).                            *)
(***************************************************************************)

\* C23: _extract_source_urls returns exactly one citation per distinct
\* match url, in the order of each url's first occurrence, and the sections
\* of a citation are the non-empty headings of the matches with its url,
\* each once.
TheoremC23 ==
    (call.fn = "extract_source_urls" /\ ret.done) =>
        LET cs  == call.chunks
            out == ret.sources
        IN  /\ {out[k].url : k \in 1..Len(out)} = {cs[i].url : i \in 1..Len(cs)}
            /\ \A k, l \in 1..Len(out) : k # l => out[k].url # out[l].url
            /\ \A k, l \in 1..Len(out) :
                  k < l => \E i \in 1..Len(cs) :
                              /\ cs[i].url = out[k].url
                              /\ \A j \in 1..Len(cs) : cs[j].url = out[l].url => i < j
            /\ \A k \in 1..Len(out) :
                  /\ Range(out[k].sections) =
                        {cs[i].heading : i \in {n \in 1..Len(cs) :
                                                   /\ cs[n].url = out[k].url
                                                   /\ cs[n].heading # <<>>}}
                  /\ Len(out[k].sections) = Cardinality(Range(out[k].sections))

\* Three matches, two of one url under the same heading around one of
\* another url without heading, gave two citations in first-occurrence
\* order, the first with the heading once and the second with no section.
WitnessC23 ==
    /\ call.fn = "extract_source_urls"
    /\ ret.done
    /\ call.chunks = <<Match("u2", <<"B">>), Match("u1", <<>>), Match("u2", <<"B">>)>>
    /\ Len(ret.sources) = 2
    /\ ret.sources[1].url = "u2" /\ ret.sources[1].sections = <<<<"B">>>>
    /\ ret.sources[2].url = "u1" /\ ret.sources[2].sections = <<>>

\* What the URL policy is stated to accept: host equal to the origin host
\* or empty, scheme http or https, extension of the path not denied, not a
\* pure-fragment reference.
InScope(k, u, domain) ==
    /\ u.host = domain \/ u.host = ""
    /\ u.scheme \in {"http", "https"}
    /\ Suffix(u.path) \notin
          (IF k = "static" THEN StaticSkipExtensions ELSE JsSkipExtensions)
    /\ ~StartsWithHash(u)

\* C24: _is_valid_url returns true exactly for the candidates in scope,
\* and false for a malformed candidate.
ClaimC24 ==
    (call.fn = "is_valid_url" /\ ret.done) =>
        (ret.valid <=> (~call.malformed /\ InScope(call.kind, call.candidate, call.domain)))

(***************************************************************************)
(* Further properties of the crawler (SpecCrawl, SpecCrawlLive).           *)
(***************************************************************************)

\* C25: the inter-request delay is applied after every frontier entry for
\* which a fetch was attempted, whether the fetch succeeded or failed.
ClaimC25 == \A i \in 1..Len(fetch_log) : fetch_log[i].slept

\* C27: every fetched url is in the visited set, no url is fetched twice,
\* and the crawl of the three pages that all link to each other, with
\* max_depth 2 and room for more than three pages, fetches and records
\* exactly three pages.
TheoremC27 ==
    /\ \A i \in 1..Len(fetch_log) : fetch_log[i].url \in visited_urls
    /\ \A i, j \in 1..Len(fetch_log) : i # j => fetch_log[i].url # fetch_log[j].url
    /\ ( /\ crawl_pc = "done"
         /\ site = SiteClique /\ base_url = RootUrl
         /\ max_depth = 2 /\ max_pages >= 3
         /\ \A i \in 1..Len(fetch_log) : fetch_log[i].outcome = "ok" ) =>
            /\ Len(fetch_log) = 3
            /\ Len(pages) = 3
            /\ {pages[i].url.path : i \in 1..3} = {"/", "/about", "/contact"}

\* The crawl of the three mutually linked pages is over with three pages
\* below the page cap, although the frontier received five entries.
WitnessC27 ==
    /\ crawl_pc = "done"
    /\ site = SiteClique /\ base_url = RootUrl
    /\ max_depth = 2 /\ max_pages = MaxPagesBound
    /\ Len(pages) = 3
    /\ Len(fetch_log) = 3
    /\ urls_to_crawl = <<>>

\* C28: fetches are attempted and pages recorded in non-decreasing depth
\* order, and no entry still in the frontier is shallower than a recorded
\* page, in particular when the page cap stops the crawl.
TheoremC28 ==
    /\ \A i, j \in 1..Len(fetch_log) : i < j => fetch_log[i].depth <= fetch_log[j].depth
    /\ \A i, j \in 1..Len(pages) : i < j => pages[i].depth <= pages[j].depth
    /\ \A i \in 1..Len(urls_to_crawl), j \in 1..Len(pages) :
          urls_to_crawl[i].depth >= pages[j].depth

\* The page cap stopped a crawl that had recorded pages of two depths and
\* left entries in the frontier.
WitnessC28 ==
    /\ crawl_pc = "done"
    /\ Len(pages) = max_pages
    /\ urls_to_crawl # <<>>
    /\ \E i, j \in 1..Len(pages) : pages[i].depth < pages[j].depth
    /\ \E i \in 1..Len(urls_to_crawl) : urls_to_crawl[i].depth = pages[Len(pages)].depth

\* C29: an iteration whose fetch fails leaves the pages unchanged, adds
\* nothing to the frontier, keeps the url visited and the crawl running;
\* a url whose fetch failed is never fetched again, and the crawl stops
\* only with an empty frontier or at the page cap.
TheoremC29 ==
    /\ [][ ( /\ Len(fetch_log') = Len(fetch_log) + 1
             /\ fetch_log'[Len(fetch_log')].outcome # "ok" ) =>
               /\ pages' = pages
               /\ urls_to_crawl' = Tail(urls_to_crawl)
               /\ Head(urls_to_crawl).url \in visited_urls'
               /\ crawl_pc' = "loop" ]_vars
    /\ [](\A i \in 1..Len(fetch_log) :
             fetch_log[i].outcome # "ok" =>
                /\ fetch_log[i].url \in visited_urls
                /\ \A j \in 1..Len(fetch_log) : fetch_log[j].url = fetch_log[i].url => j = i
                /\ \A j \in 1..Len(pages) : pages[j].url # fetch_log[i].url)
    /\ [](crawl_pc = "done" => (urls_to_crawl = <<>> \/ Len(pages) = max_pages))

\* A crawl is over in which a fetch failed and a later fetch recorded a page.
WitnessC29 ==
    /\ crawl_pc = "done"
    /\ \E i, j \in 1..Len(fetch_log) :
          /\ i < j
          /\ fetch_log[i].outcome # "ok"
          /\ fetch_log[j].outcome = "ok"
          /\ \E k \in 1..Len(pages) : pages[k].url = fetch_log[j].url

\* C30: crawl() eventually returns, and when it has returned the frontier
\* is empty or the number of recorded pages equals max_pages.
TheoremC30 ==
    <>[](crawl_pc = "done" /\ (urls_to_crawl = <<>> \/ Len(pages) = max_pages))

\* crawl() returned with an empty frontier and fewer pages than the cap,
\* after fetches that failed and fetches that succeeded.
WitnessC30 ==
    /\ crawl_pc = "done"
    /\ urls_to_crawl = <<>>
    /\ Len(pages) < max_pages
    /\ Len(pages) >= 1
    /\ Len(fetch_log) > Len(pages)

(***************************************************************************)
(* Properties of the index pipeline (SpecPipe).                            *)
(***************************************************************************)

\* The call carries a configuration error: an empty origin url, or
\* credentials the provider rejects.
ConfigError == base_url = EmptyUrl \/ pl_cfg.credentials = "rejected"

\* C26: in the index pipeline a configuration error is detected and
\* reported before the first page fetch of the crawl: with such an error no
\* fetch is ever issued and the pipeline reports nothing but the error.
ClaimC26 ==
    ConfigError =>
        /\ fetch_log = <<>>
        /\ pl_report.kind \in {"none", "config"}

(***************************************************************************)
(* Properties of heading extraction (SpecPure).                            *)
(***************************************************************************)

\* The non-empty heading texts of a document in document order.
DocumentOrder(doc) ==
    LET idx == {i \in 1..Len(doc) : Strip(doc[i].text) # <<>>}
        nth(n) == CHOOSE i \in idx : Cardinality({j \in idx : j < i}) = n - 1
    IN  [n \in 1..Cardinality(idx) |-> Strip(doc[nth(n)].text)]

\* C31: the headings of a page are its heading texts in document order
\* across the levels, and the heading of a passage is the first of them, in
\* that order, that occurs in the passage text, or none.
ClaimC31 ==
    (call.fn = "extract_headings" /\ ret.done) =>
        /\ ret.headings = DocumentOrder(call.doc)
        /\ ret.heading = HeadingOf(DocumentOrder(call.doc), call.passage)

(***************************************************************************)
(* Further properties of the chunker (SpecChunk).                          *)
(***************************************************************************)

\* The index, within the window that starts at st, of its last '.' or
\* newline; -1 when it has none.
BreakPointOf(st) ==
    Max(RFind(PySlice(text, st, st + chunk_size), "."),
        RFind(PySlice(text, st, st + chunk_size), "\n"))

\* C32: a window that does not reach the end of the text ends just after
\* its last '.' or newline whenever that character lies at or after the
\* middle of the window, and at the full chunk_size otherwise; a window
\* that reaches the end of the text is never shortened.
ClaimC32 ==
    overlap < chunk_size =>
        \A i \in 1..Len(windows) :
            LET st == windows[i][1]
                e  == windows[i][2]
                bp == BreakPointOf(st)
            IN  IF st + chunk_size < Len(text) /\ bp >= 0 /\ 2 * bp >= chunk_size
                THEN e = st + bp + 1
                ELSE e = st + chunk_size

\* The part of the text a window covers: the window cut at the end of the text.
Clip(w) == <<w[1], Min(w[2], Len(text))>>

\* C33: when _chunk_text has returned for 0 <= overlap < chunk_size, every
\* character position of the text lies in a window, consecutive windows
\* share exactly overlap characters of the text, and the windows without
\* their leading overlap, concatenated, are the text.
ClaimC33 ==
    (ck_pc = "done" /\ overlap < chunk_size) =>
        /\ \A pos \in 0..(Len(text) - 1) :
              \E i \in 1..Len(windows) : windows[i][1] <= pos /\ pos < windows[i][2]
        /\ \A i \in 1..(Len(windows) - 1) :
              /\ Clip(windows[i + 1])[1] <= Clip(windows[i])[2]
              /\ Clip(windows[i])[2] - Clip(windows[i + 1])[1] = overlap
        /\ \A i \in 1..(Len(windows) - 1) :
              PySlice(text, windows[i + 1][1] + overlap, windows[i + 1][2])
                 = PySlice(text, windows[i][2], windows[i + 1][2])

(***************************************************************************)
(* Further properties of the index (SpecIndex).                            *)
(***************************************************************************)

\* A passage text index_pages may store: something is left of it after
\* trimming and it has at most 10000 characters.
Storable(t) == Strip(t) # <<>> /\ Len(t) <= HardCap

\* C34: every passage index_pages collects, and every passage it has
\* stored in the collection it created, has non-empty text of at most
\* 10000 characters.
TheoremC34 ==
    /\ \A j \in 1..Len(all_texts) : Storable(all_texts[j])
    /\ ip_pc \in {"created", "embed", "add", "done", "add_failed"} =>
          \A j \in 1..Len(coll.entries) : Storable(coll.entries[j].document)

\* A rebuild finished for a page list holding a page longer than the hard
\* cap, chunked so that one chunk exceeds the cap: that chunk is not among
\* the stored passages, the rest of the page is.
WitnessC34 ==
    /\ ip_pc = "done"
    /\ \E i \in 1..Len(ip_cfg.pages) :
          /\ Len(ip_cfg.pages[i].content) > HardCap
          /\ ip_cfg.chunk_size > HardCap
          /\ \E j \in 1..Len(coll.entries) :
                coll.entries[j].metadata.url = ip_cfg.pages[i].url
    /\ Len(coll.entries) = 2

\* The passages of the collection as it was when index_pages was called.
PreviousPassages ==
    {[text |-> prev_coll.entries[j].document, url |-> prev_coll.entries[j].metadata.url,
      chunk_id |-> prev_coll.entries[j].metadata.chunk_id] :
        j \in 1..Len(prev_coll.entries)}

\* C35: a search issued once index_pages has begun its rebuild returns no
\* passage of the previous collection.
ClaimC35 ==
    (seen.status = "ok" /\ seen.begun) =>
        \A i \in 1..Len(seen.results) :
            [text     |-> seen.results[i].chunk.text,
             url      |-> seen.results[i].chunk.url,
             chunk_id |-> seen.results[i].chunk.chunk_id] \notin PreviousPassages

(***************************************************************************)
(* Further properties of the index pipeline (SpecPipe).                    *)
(***************************************************************************)

\* C39: when the indexing request has reported success for a page list
\* that yielded no passage, the previous collection is gone: the index
\* holds no passage and load() returns False.
TheoremC39 ==
    (pl_pc = "done" /\ all_texts = <<>>) =>
        /\ pl_report.kind = "success"
        /\ coll.exists
        /\ coll.entries = <<>>
        /\ ~Load

\* A crawl whose only fetch failed returned zero pages, index_pages ran on
\* them over a store that held passages, and the request reported success
\* with the index empty.
WitnessC39 ==
    /\ pl_pc = "done"
    /\ pl_report.kind = "success"
    /\ pages = <<>>
    /\ Len(fetch_log) = 1
    /\ prev_coll.entries = OldCollection
    /\ coll.entries = <<>>
    /\ ~Load

(***************************************************************************)
(* The two URL policies compared (SpecPure).                               *)
(***************************************************************************)

\* C37: for the same origin host and the same candidate URL, the policy of
\* the static crawler and the policy of the rendered crawler return the
\* same decision.
ClaimC37 ==
    (call.fn = "is_valid_url" /\ ret.done) =>
        /\ ret.valid = IsValidUrlCall("static", call.malformed, call.candidate, call.domain)
        /\ ret.valid = IsValidUrlCall("js", call.malformed, call.candidate, call.domain)

(***************************************************************************)
(* Order of discovery (SpecCrawl).                                         *)
(***************************************************************************)

\* The position of the first anchor of the page at url whose target is u.
FirstAnchor(url, u) ==
    CHOOSE i \in 1..Len(AnchorTargets(site, url)) :
        /\ AnchorTargets(site, url)[i] = u
        /\ \A j \in 1..(i - 1) : AnchorTargets(site, url)[j] # u

\* C38: the links of a recorded page are enqueued in the order of its
\* anchors in the document, for both crawlers, so that the sequence of
\* recorded pages is a function of the site and the parameters.
ClaimC38 ==
    [][ Len(pages') = Len(pages) + 1 =>
          LET url   == Head(urls_to_crawl).url
              added == SubSeq(urls_to_crawl', Len(urls_to_crawl), Len(urls_to_crawl'))
          IN  \A i, j \in 1..Len(added) :
                 i < j => FirstAnchor(url, added[i].url) <= FirstAnchor(url, added[j].url)
      ]_vars

(***************************************************************************)
(* Properties of the interactive chat loop (SpecLoop).                     *)
(***************************************************************************)

RECURSIVE Transcript(_, _)
\* The entries of the answered queries among the first n processed, in
\* the order they were made.
Transcript(a, n) ==
    IF n = 0 THEN <<>>
    ELSE Transcript(a, n - 1) \o
         (IF a[n].outcome = "answered"
          THEN <<HistoryEntry("user", a[n].turn), HistoryEntry("assistant", a[n].turn)>>
          ELSE <<>>)

\* The last entries of a list, at most n of them, in their order.
LastN(h, n) == IF Len(h) > n THEN SubSeq(h, Len(h) - n + 1, Len(h)) ELSE h

\* C36: the chat history, as held and as passed to every query, has at
\* most 10 entries and is the most recent entries, in their original
\* order, of the user and assistant entries of the queries answered so
\* far, one pair per answered query and nothing for a query that raised.
TheoremC36 ==
    /\ Len(history) <= 10
    /\ history = LastN(Transcript(asked, Len(asked)), 10)
    /\ \A i \in 1..Len(asked) :
          /\ Len(asked[i].passed) <= 10
          /\ asked[i].passed = LastN(Transcript(asked, i - 1), 10)

\* A session of six answered queries and one that raised: the history
\* holds ten entries and the entries of the first answered query are gone.
WitnessC36 ==
    /\ Len(asked) = 7
    /\ \E i \in 1..Len(asked) : asked[i].outcome = "raised"
    /\ Len(history) = 10
    /\ \E i \in 1..Len(asked) :
          /\ asked[i].outcome = "answered"
          /\ HistoryEntry("user", asked[i].turn) \notin Range(history)
    /\ history[10] = HistoryEntry("assistant", asked[7].turn)

====
